---------------------------- MODULE Spec2Model ----------------------------
(***************************************************************************)
(* Confound time-series generation (hypotmri).                             *)
(*                                                                         *)
(* Two variants of the pipeline are modelled:                              *)
(*   experimental : src/experimental/s04_generate_confounds_nipy.py        *)
(*   preproc      : src/preproc/functional/s04_generate_confounds_nipy.py  *)
(*                                                                         *)
(* Floating-point values are modelled exactly: a value is a rational       *)
(* (kind "q"), a cosine of a rational multiple of pi (kind "cos"), or NaN. *)
(* numpy/pandas calls are modelled by what they do on the modelled inputs. *)
(***************************************************************************)
EXTENDS Integers, Sequences, FiniteSets, TLC

VARIABLES
    pc,     \* position of the running call or pipeline
    inp,    \* the arguments of the call, or the command line of main
    out,    \* value returned by the function under study
    err,    \* exception raised (NoErr when none)
    conf,   \* main: the confound table assembled so far
    fs,     \* main: files written, oldest first
    loc     \* main: local variables (frame count, mask paths)

vars == <<pc, inp, out, err, conf, fs, loc>>

\* the part of the state only main touches
mainVars == <<conf, fs, loc>>

(***************************************************************************)
(* Bounds of the model.                                                    *)
(***************************************************************************)
MaxRows == 2        \* most rows of a motion parameter file
MaxVal == 1         \* motion parameter values are 0..MaxVal
MaxT == 3           \* most frames of a BOLD volume
NVox == 2           \* voxels of the functional grid
MaxDriftT == 4      \* most frames given to cosine_drift_terms
MaxTr == 4          \* repetition times are 1..MaxTr seconds
MaxCutoff == 8      \* cutoff periods are 1..MaxCutoff seconds, or the default
MaxDilate == 1      \* --gm-dilate-iter is 0..MaxDilate
MaxComp == 2        \* most components in a CompCor components file

(***************************************************************************)
(* Values: IEEE doubles, modelled exactly.                                 *)
(***************************************************************************)
NaN == [k |-> "nan", n |-> 0, d |-> 1]

Abs(i) == IF i < 0 THEN -i ELSE i

RECURSIVE GCD(_, _)
GCD(a, b) == IF b = 0 THEN a ELSE GCD(b, a % b)

\* the rational n/d (d > 0) in lowest terms
Rat(n, d) ==
    LET g == GCD(Abs(n), d)
    IN  [k |-> "q", n |-> n \div g, d |-> d \div g]

Num(i) == [k |-> "q", n |-> i, d |-> 1]

IsNaN(a) == a.k = "nan"

\* a - b, a * b, a + b on doubles; NaN propagates
FSub(a, b) ==
    IF IsNaN(a) \/ IsNaN(b) THEN NaN
    ELSE Rat(a.n * b.d - b.n * a.d, a.d * b.d)

FAdd(a, b) ==
    IF IsNaN(a) \/ IsNaN(b) THEN NaN
    ELSE Rat(a.n * b.d + b.n * a.d, a.d * b.d)

FMul(a, b) ==
    IF IsNaN(a) \/ IsNaN(b) THEN NaN
    ELSE Rat(a.n * b.n, a.d * b.d)

\* x ** 2
FSq(a) == FMul(a, a)

(***************************************************************************)
(* Exceptions.  A message is kept as its fixed text, the series name it    *)
(* interpolates (if any) and the numbers it interpolates, in order.        *)
(***************************************************************************)
NoErr == [type |-> "none", text |-> "", name |-> "", nums |-> <<>>]

Error(type, text, name, nums) ==
    [type |-> type, text |-> text, name |-> name, nums |-> nums]

\* result of a call: the returned value, or the exception raised
Ok(v) == [err |-> NoErr, val |-> v]

Raise(e) == [err |-> e, val |-> <<>>]

Raised(r) == r.err.type # "none"

(***************************************************************************)
(* Tables (pandas.DataFrame): a row count, the column names in order and   *)
(* one series per column.                                                  *)
(***************************************************************************)
Frame(n, names, cols) == [index |-> n, columns |-> names, data |-> cols]

NoFrame == Frame(0, <<>>, <<>>)

NoLocals ==
    [T |-> 0, brain_mask |-> "", wm_mask |-> "", csf_mask |-> "",
     wmcsf_mask |-> "", hashseed |-> 0]

\* main has not run
MainIdle == conf = NoFrame /\ fs = <<>> /\ loc = NoLocals

\* position of column c (names are unique in every table built here)
ColPos(df, c) == CHOOSE i \in 1..Len(df.columns) : df.columns[i] = c

HasCol(df, c) == \E i \in 1..Len(df.columns) : df.columns[i] = c

\* df[c].to_numpy()
Col(df, c) == df.data[ColPos(df, c)]

\* pd.concat([a, b], axis=1) of tables over the same RangeIndex
Concat(a, b) == Frame(a.index, a.columns \o b.columns, a.data \o b.data)

(***************************************************************************)
(* Motion parameter files and np.loadtxt.                                  *)
(* A file is a sequence of text rows, each a sequence of numbers.          *)
(***************************************************************************)
ColCounts == {5, 6}

MotionVals == {Num(i) : i \in 0..MaxVal}

Rows(nc) == [1..nc -> MotionVals]

MotionFiles ==
    UNION {[1..r -> Rows(nc)] : r \in 0..MaxRows, nc \in ColCounts}

\* np.loadtxt(par_file): ndmin=0 squeezes axes of length 1; an empty file
\* gives an empty 1-D array
loadtxt(file) ==
    LET r == Len(file)
        nc == IF r = 0 THEN 0 ELSE Len(file[1])
        dims == IF r = 0 THEN <<0>> ELSE <<r, nc>>
        keep == SelectSeq(dims, LAMBDA n : n # 1)
    IN  [shape |-> IF r = 0 THEN dims ELSE keep, rows |-> file]

load_mcflirt_par(par_file) ==
    LET mp == loadtxt(par_file)
    IN  IF Len(mp.shape) # 2 \/ mp.shape[2] # 6
        THEN Raise(Error("ValueError", "Expected Nx6 motion params, got",
                         "", mp.shape))
        ELSE Ok(mp)

\* mp[:, j] of a 2-D array (j counted from 0)
Column(mp, j) == [t \in 1..Len(mp.rows) |-> mp.rows[t][j + 1]]

\* a forward difference, 0 in the last frame
backward_diff_forward(x) ==
    [t \in 1..Len(x) |-> IF t = Len(x) THEN Num(0) ELSE FSub(x[t + 1], x[t])]

backward_diff(x) ==
    [t \in 1..Len(x) |-> IF t = 1 THEN Num(0) ELSE FSub(x[t], x[t - 1])]

Suffixed(base_cols, sfx) ==
    [i \in 1..Len(base_cols) |-> base_cols[i] \o sfx]

add_fmriprep_expansions(df, base_cols) ==
    LET nb == Len(base_cols)
        derivs == [i \in 1..nb |-> backward_diff(Col(df, base_cols[i]))]
        deriv == Frame(df.index, Suffixed(base_cols, "_derivative1"), derivs)
        power2 == Frame(df.index, Suffixed(base_cols, "_power2"),
                     [i \in 1..nb |->
                        [t \in 1..df.index |-> FSq(Col(df, base_cols[i])[t])]])
        deriv_power2 ==
            Frame(df.index, Suffixed(base_cols, "_derivative1_power2"),
                  [i \in 1..nb |->
                     [t \in 1..df.index |->
                        FSq(Col(deriv, base_cols[i] \o "_derivative1")[t])]])
    IN  Concat(Concat(Concat(df, deriv), power2), deriv_power2)

MotionBase == <<"trans_x", "trans_y", "trans_z", "rot_x", "rot_y", "rot_z">>

\* the table built with columns 0-2 taken as translations
BaseFrame_transFirst(mp) ==
    Frame(Len(mp.rows), MotionBase,
          <<Column(mp, 0), Column(mp, 1), Column(mp, 2),
            Column(mp, 3), Column(mp, 4), Column(mp, 5)>>)

\* the six-column table built from rot = mp[:, 0:3] and trans = mp[:, 3:6]
BaseFrame(mp) ==
    Frame(Len(mp.rows), MotionBase,
          <<Column(mp, 3), Column(mp, 4), Column(mp, 5),
            Column(mp, 0), Column(mp, 1), Column(mp, 2)>>)

\* experimental variant
motion_df_from_mcflirt(par_file) ==
    LET r == load_mcflirt_par(par_file)
    IN  IF Raised(r) THEN r
        ELSE Ok(add_fmriprep_expansions(BaseFrame(r.val), MotionBase))

\* preproc variant: the expansions are written out in place
motion_df_from_mcflirt_pre(par_file) ==
    LET r == load_mcflirt_par(par_file)
    IN  IF Raised(r) THEN r
        ELSE LET base == BaseFrame(r.val)
                 deriv == Frame(base.index,
                     Suffixed(base.columns, "_derivative1"),
                     [i \in 1..Len(base.columns) |->
                        backward_diff(base.data[i])])
                 power2 == Frame(base.index,
                     Suffixed(base.columns, "_power2"),
                     [i \in 1..Len(base.columns) |->
                        [t \in 1..base.index |-> FSq(base.data[i][t])]])
                 deriv_power2 == Frame(base.index,
                     Suffixed(base.columns, "_derivative1_power2"),
                     [i \in 1..Len(base.columns) |->
                        [t \in 1..base.index |-> FSq(deriv.data[i][t])]])
             IN  Ok(Concat(Concat(Concat(base, deriv), power2), deriv_power2))

(***************************************************************************)
(* Specification SpecMotion: a motion file is expanded by either variant.  *)
(***************************************************************************)
InitMotion ==
    /\ MainIdle
    /\ pc = "motion_ready"
    /\ inp \in MotionFiles
    /\ out = NoFrame
    /\ err = NoErr

CallMotionExp ==
    /\ pc = "motion_ready"
    /\ LET r == motion_df_from_mcflirt(inp)
       IN  /\ out' = (IF Raised(r) THEN NoFrame ELSE r.val)
           /\ err' = r.err
    /\ pc' = "motion_exp"
    /\ UNCHANGED <<inp, mainVars>>

CallMotionPre ==
    /\ pc = "motion_ready"
    /\ LET r == motion_df_from_mcflirt_pre(inp)
       IN  /\ out' = (IF Raised(r) THEN NoFrame ELSE r.val)
           /\ err' = r.err
    /\ pc' = "motion_pre"
    /\ UNCHANGED <<inp, mainVars>>

NextMotion == CallMotionExp \/ CallMotionPre

SpecMotion == InitMotion /\ [][NextMotion]_vars

MotionCalled == pc \in {"motion_exp", "motion_pre"}

SixColumnFile(file) == Len(file) >= 1 /\ Len(file[1]) = 6

DerivCols == Suffixed(MotionBase, "_derivative1")

\* C1: every motion file with T >= 1 rows of six values (T = 1 included)
\* is expanded into a table of exactly T rows and 24 columns whose six
\* _derivative1 columns are 0 in row 0.
C1_MotionShape ==
    (MotionCalled /\ SixColumnFile(inp)) =>
        /\ err = NoErr
        /\ out.index = Len(inp)
        /\ Len(out.columns) = 24
        /\ \A i \in 1..24 : Len(out.data[i]) = Len(inp)
        /\ \A i \in 1..6 : Col(out, DerivCols[i])[1] = Num(0)

\* a table was returned
MotionReturned == MotionCalled /\ err = NoErr

\* the column of the motion file (counted from 1) a base column is read from
FileColumn(c) ==
    CASE c = "rot_x" -> 1 [] c = "rot_y" -> 2 [] c = "rot_z" -> 3
      [] c = "trans_x" -> 4 [] c = "trans_y" -> 5 [] c = "trans_z" -> 6

BaseNames == {"trans_x", "trans_y", "trans_z", "rot_x", "rot_y", "rot_z"}

\* C19: for every motion trace and every base column c, c_derivative1[t] =
\* c[t] - c[t-1] for all t >= 1 and 0 at t = 0, c_power2[t] = c[t]^2 for
\* all t, c_derivative1_power2[t] = (c_derivative1[t])^2 for all t, and the
\* six raw columns are carried into the result unchanged.
C19_Expansions ==
    MotionReturned =>
        \A c \in BaseNames :
            LET raw == [t \in 1..Len(inp) |-> inp[t][FileColumn(c)].n]
                d == [t \in 1..Len(inp) |->
                        IF t = 1 THEN 0 ELSE raw[t] - raw[t - 1]]
            IN  /\ Col(out, c) = [t \in 1..Len(inp) |-> Num(raw[t])]
                /\ Col(out, c \o "_derivative1") =
                       [t \in 1..Len(inp) |-> Num(d[t])]
                /\ Col(out, c \o "_power2") =
                       [t \in 1..Len(inp) |-> Num(raw[t] * raw[t])]
                /\ Col(out, c \o "_derivative1_power2") =
                       [t \in 1..Len(inp) |-> Num(d[t] * d[t])]

\* a trace was expanded whose x translation falls and whose x rotation
\* rises between the frames
C19_Witness ==
    /\ pc = "motion_exp"
    /\ err = NoErr
    /\ Len(inp) = 2
    /\ Col(out, "trans_x_derivative1") = <<Num(0), Num(-1)>>
    /\ Col(out, "rot_x_derivative1") = <<Num(0), Num(1)>>
    /\ Col(out, "trans_x_power2") = <<Num(1), Num(0)>>

\* the file is a table of at least one row with six values in every row
SixColumnTable(file) ==
    /\ Len(file) >= 1
    /\ \A r \in 1..Len(file) : Len(file[r]) = 6

\* C20: columns 0-2 of the motion file are read as rotations and columns
\* 3-5 as translations: in the table rot_x, rot_y, rot_z equal file columns
\* 0, 1, 2 and trans_x, trans_y, trans_z equal file columns 3, 4, 5, row
\* for row; a file that is not a 2-D table with exactly six columns is
\* rejected with an error.
C20_ColumnMapping ==
    MotionCalled =>
        /\ ~SixColumnTable(inp) => (err.type = "ValueError" /\ out = NoFrame)
        /\ err = NoErr =>
              /\ out.index = Len(inp)
              /\ \A t \in 1..Len(inp) :
                    /\ Col(out, "rot_x")[t] = inp[t][1]
                    /\ Col(out, "rot_y")[t] = inp[t][2]
                    /\ Col(out, "rot_z")[t] = inp[t][3]
                    /\ Col(out, "trans_x")[t] = inp[t][4]
                    /\ Col(out, "trans_y")[t] = inp[t][5]
                    /\ Col(out, "trans_z")[t] = inp[t][6]

\* a file whose rotations are all 1 and whose translations are all 0 was
\* read
C20_Witness ==
    /\ pc = "motion_pre"
    /\ err = NoErr
    /\ Len(inp) = 2
    /\ \A t \in 1..2 : inp[t] = <<Num(1), Num(1), Num(1),
                                   Num(0), Num(0), Num(0)>>
    /\ Col(out, "rot_z") = <<Num(1), Num(1)>>
    /\ Col(out, "trans_x") = <<Num(0), Num(0)>>


(***************************************************************************)
(* enforce_length_1d (experimental variant).                               *)
(* An optional array is None or Some(series).                              *)
(***************************************************************************)
None == [none |-> TRUE, v |-> <<>>]

Some(s) == [none |-> FALSE, v |-> s]

\* np.full((n,), value)
Full(n, value) == [i \in 1..n |-> value]

enforce_length_1d_noT2(name, x, T, pad_value) ==
    IF x.none THEN Ok(Full(T, NaN))
    ELSE IF Len(x.v) = T THEN Ok(x.v)
    ELSE IF Len(x.v) = T - 1
         THEN Ok(Full(T - Len(x.v), pad_value) \o x.v)
    ELSE Raise(Error("ValueError", "length != T, T-1, or T-2", name,
                     <<Len(x.v), T, T - 1, T - 2>>))

enforce_length_1d_padEnd(name, x, T, pad_value) ==
    IF x.none THEN Ok(Full(T, NaN))
    ELSE IF Len(x.v) = T THEN Ok(x.v)
    ELSE IF Len(x.v) \in {T - 1, T - 2}
         THEN Ok(x.v \o Full(T - Len(x.v), pad_value))
    ELSE Raise(Error("ValueError", "length != T, T-1, or T-2", name,
                     <<Len(x.v), T, T - 1, T - 2>>))

\* an absent series becomes T copies of pad_value
enforce_length_1d_nonePad(name, x, T, pad_value) ==
    IF x.none THEN Ok(Full(T, pad_value))
    ELSE IF Len(x.v) = T THEN Ok(x.v)
    ELSE IF Len(x.v) \in {T - 1, T - 2}
         THEN Ok(Full(T - Len(x.v), pad_value) \o x.v)
    ELSE Raise(Error("ValueError", "length != T, T-1, or T-2", name,
                     <<Len(x.v), T, T - 1, T - 2>>))

enforce_length_1d(name, x, T, pad_value) ==
    IF x.none THEN Ok(Full(T, NaN))
    ELSE IF Len(x.v) = T THEN Ok(x.v)
    ELSE IF Len(x.v) \in {T - 1, T - 2}
         THEN LET n_pad == T - Len(x.v)
              IN  Ok(Full(n_pad, pad_value) \o x.v)
    ELSE Raise(Error("ValueError", "length != T, T-1, or T-2", name,
                     <<Len(x.v), T, T - 1, T - 2>>))

(***************************************************************************)
(* Specification SpecLen: enforce_length_1d applied to a series.           *)
(***************************************************************************)
SeriesVals == {Num(0), Num(1)}

SeriesNames == {"framewise_displacement", "dvars", "std_dvars"}

\* all series of at most n values
SeriesUpTo(n) == UNION {[1..l -> SeriesVals] : l \in 0..n}

PadValues == {NaN, Num(0)}

InitLen ==
    /\ MainIdle
    /\ pc = "len_ready"
    /\ inp \in [name : SeriesNames,
                x : {None} \cup {Some(s) : s \in SeriesUpTo(MaxT + 1)},
                T : 1..MaxT,
                pad_value : PadValues]
    /\ out = <<>>
    /\ err = NoErr

CallEnforceLength ==
    /\ pc = "len_ready"
    /\ LET r == enforce_length_1d(inp.name, inp.x, inp.T, inp.pad_value)
       IN  /\ out' = r.val
           /\ err' = r.err
    /\ pc' = "len_done"
    /\ UNCHANGED <<inp, mainVars>>

NextLen == CallEnforceLength

SpecLen == InitLen /\ [][NextLen]_vars

LenCalled == pc = "len_done" /\ ~inp.x.none

InLen == Len(inp.x.v)

Accepted == InLen \in {inp.T, inp.T - 1, inp.T - 2}

\* C3: for every T >= 1 and every series of length L, enforce_length_1d
\* returns a series of length exactly T when L is T, T-1 or T-2 and raises
\* an error naming the series and its length for every other L.
C3_LengthEnforced ==
    LenCalled =>
        /\ Accepted => (err = NoErr /\ Len(out) = inp.T)
        /\ ~Accepted => /\ err.type = "ValueError"
                        /\ err.name = inp.name
                        /\ err.nums[1] = InLen
        /\ err = NoErr => Len(out) = inp.T

C3_Witness ==
    /\ LenCalled
    /\ InLen = inp.T - 2
    /\ InLen >= 1
    /\ err = NoErr
    /\ Len(out) = inp.T

Padded == LenCalled /\ InLen \in {inp.T - 1, inp.T - 2}

TailKept == \A i \in 1..InLen : out[inp.T - InLen + i] = inp.x.v[i]

C29_AbsentIsMissing ==
    (pc = "len_done" /\ inp.x.none) =>
        /\ err = NoErr
        /\ Len(out) = inp.T
        /\ \A t \in 1..inp.T : out[t] = NaN

\* the call was made for an absent series, three frames and a pad value
\* of 0
C29_Witness ==
    /\ pc = "len_done"
    /\ inp.x = None
    /\ inp.T = 3
    /\ inp.pad_value = Num(0)
    /\ out = <<NaN, NaN, NaN>>
    /\ err = NoErr


(***************************************************************************)
(* mean_signal.  A BOLD volume is a sequence of T frames, each a sequence  *)
(* of NVox voxel values; a mask is the set of voxels it selects.           *)
(***************************************************************************)
Voxels == 1..NVox

BoldVals == {Num(0), Num(1)}

Bolds == UNION {[1..T -> [Voxels -> BoldVals]] : T \in 1..MaxT}

Masks == SUBSET Voxels

\* the voxels of a mask in grid order
RECURSIVE VoxelList(_, _)
VoxelList(mask, v) ==
    IF v > NVox THEN <<>>
    ELSE (IF v \in mask THEN <<v>> ELSE <<>>) \o VoxelList(mask, v + 1)

\* nilearn.masking.apply_mask: the (T, V) matrix of the masked voxels.
\* nilearn loads the mask with allow_empty=False and then rejects a mask
\* that selects no voxel ("The mask is invalid as it is empty"); which of
\* the two outcomes an empty mask has is left to the installed library.
apply_mask(bold, mask, allow_empty) ==
    IF mask = {} /\ ~allow_empty
    THEN Raise(Error("ValueError", "The mask is invalid as it is empty",
                     "", <<>>))
    ELSE LET vs == VoxelList(mask, 1)
         IN  Ok([t \in 1..Len(bold) |->
                   [i \in 1..Len(vs) |-> bold[t][vs[i]]]])

RECURSIVE SumSeq(_)
SumSeq(s) ==
    IF s = <<>> THEN Num(0) ELSE FAdd(s[1], SumSeq(Tail(s)))

\* row.mean()
Mean(row) ==
    LET sm == SumSeq(row)
    IN  IF IsNaN(sm) THEN NaN ELSE Rat(sm.n, sm.d * Len(row))

mean_signal(bold, mask, allow_empty) ==
    LET r == apply_mask(bold, mask, allow_empty)
    IN  IF Raised(r) THEN r
        ELSE LET X == r.val
             IN  IF Len(X[1]) = 0
                 THEN Ok(Full(Len(bold), NaN))
                 ELSE Ok([t \in 1..Len(X) |-> Mean(X[t])])

(***************************************************************************)
(* Specification SpecMean: mean_signal applied to a volume and a mask.     *)
(***************************************************************************)
InitMean ==
    /\ MainIdle
    /\ pc = "mean_ready"
    /\ inp \in [bold : Bolds, mask : Masks]
    /\ out = <<>>
    /\ err = NoErr

CallMeanSignal ==
    /\ pc = "mean_ready"
    /\ \E allow_empty \in BOOLEAN :
         LET r == mean_signal(inp.bold, inp.mask, allow_empty)
         IN  /\ out' = r.val
             /\ err' = r.err
    /\ pc' = "mean_done"
    /\ UNCHANGED <<inp, mainVars>>

NextMean == CallMeanSignal

SpecMean == InitMean /\ [][NextMean]_vars

\* C7: for every volume of T frames and every mask on its grid mean_signal
\* returns a series of length exactly T; when the mask selects no voxel all
\* T entries are the missing-value marker and no error is raised.
C7_MeanSignal ==
    pc = "mean_done" =>
        /\ err = NoErr
        /\ Len(out) = Len(inp.bold)
        /\ inp.mask = {} => \A t \in 1..Len(out) : out[t] = NaN


(***************************************************************************)
(* cosine_drift_terms.  Times are whole seconds.  An entry of the basis is *)
(* cos(pi * m / (2 * T)) for an integer m; it is kept as the angle m/(2T)  *)
(* reduced to [0, pi], where the cosine is one-to-one.                     *)
(***************************************************************************)
DefaultCutoff == 128

CosVal(m, T) ==
    LET r == m % (4 * T)
        a == IF r > 2 * T THEN 4 * T - r ELSE r
        g == GCD(a, 2 * T)
    IN  [k |-> "cos", n |-> a \div g, d |-> (2 * T) \div g]

\* nilearn's _cosine_drift takes two arguments (high_pass, frame_times);
\* called with three it raises TypeError, which the except clause catches
cosine_drift_nilearn(tr, T, cutoff) ==
    Raise(Error("TypeError", "takes 2 positional arguments but 3 were given",
                "", <<>>))

DriftK_ceil(T, tr, cutoff) == (2 * (T * tr) + cutoff - 1) \div cutoff

DriftK_noTwice(T, tr, cutoff) == (T * tr) \div cutoff

\* K = int(np.floor(2.0 * scan_duration / float(cutoff)))
DriftK(T, tr, cutoff) == (2 * (T * tr)) \div cutoff

\* np.column_stack([cos(pi * (2n + 1) * k / (2T)) for k in 1..K])
DctBasis(T, K) ==
    [k \in 1..K |-> [t \in 1..T |-> CosVal((2 * (t - 1) + 1) * k, T)]]

\* np.nanstd(col) > 1e-12: the entries are not all the same number
NonConstant(col) == \E t \in 1..Len(col) : col[t] # col[1]

\* keep = [j for j in range(C.shape[1]) if np.nanstd(C[:, j]) > 1e-12]
RECURSIVE KeepFrom(_, _)
KeepFrom(C, j) ==
    IF j > Len(C) THEN <<>>
    ELSE (IF NonConstant(C[j]) THEN <<j>> ELSE <<>>) \o KeepFrom(C, j + 1)

Digit(i) == SubSeq("0123456789", i + 1, i + 1)

RECURSIVE Dec(_)
Dec(i) == IF i < 10 THEN Digit(i) ELSE Dec(i \div 10) \o Digit(i % 10)

\* f"{i:02d}"
Fmt02d(i) == IF i < 10 THEN "0" \o Digit(i) ELSE Dec(i)

\* cols = [f"cosine_{i:02d}" for i in range(C.shape[1])]
CosineCols(n) == [i \in 1..n |-> "cosine_" \o Fmt02d(i - 1)]

cosine_drift_terms_basisIndex(T, tr, cutoff) ==
    LET K == DriftK(T, tr, cutoff)
        built == IF K < 1 THEN <<>> ELSE DctBasis(T, K)
        keep == KeepFrom(built, 1)
        C == [i \in 1..Len(keep) |-> built[keep[i]]]
    IN  [built |-> built,
         frame |-> Frame(T, [i \in 1..Len(keep) |->
                               "cosine_" \o Fmt02d(keep[i] - 1)], C)]

\* the returned table, and the basis as built before the constant check
cosine_drift_terms(T, tr, cutoff) ==
    LET lib == cosine_drift_nilearn(tr, T, cutoff)
        K == DriftK(T, tr, cutoff)
        built == IF Raised(lib)
                 THEN (IF K < 1 THEN <<>> ELSE DctBasis(T, K))
                 ELSE lib.val
        keep == KeepFrom(built, 1)
        C == [i \in 1..Len(keep) |-> built[keep[i]]]
    IN  IF Raised(lib) /\ K < 1
        THEN [built |-> built, frame |-> Frame(T, <<>>, <<>>)]
        ELSE [built |-> built, frame |-> Frame(T, CosineCols(Len(C)), C)]

(***************************************************************************)
(* Specification SpecDrift: cosine_drift_terms applied to T, tr, cutoff.   *)
(***************************************************************************)
DriftScenarios ==
    {[T |-> 100, tr |-> 2, cutoff |-> DefaultCutoff],
     [T |-> 10, tr |-> 2, cutoff |-> DefaultCutoff]}

DriftInputs ==
    [T : 1..MaxDriftT, tr : 1..MaxTr,
     cutoff : (1..MaxCutoff) \cup {DefaultCutoff}] \cup DriftScenarios

InitDrift ==
    /\ MainIdle
    /\ pc = "drift_ready"
    /\ inp \in DriftInputs
    /\ out = [built |-> <<>>, frame |-> NoFrame]
    /\ err = NoErr

CallCosineDrift ==
    /\ pc = "drift_ready"
    /\ out' = cosine_drift_terms(inp.T, inp.tr, inp.cutoff)
    /\ pc' = "drift_done"
    /\ UNCHANGED <<inp, err, mainVars>>

NextDrift == CallCosineDrift

SpecDrift == InitDrift /\ [][NextDrift]_vars

DriftDone == pc = "drift_done"

NDrift == Len(out.frame.columns)

ScanDuration == inp.T * inp.tr

\* C8 (as stated): a scan whose duration T*tr is shorter than the cutoff
\* period gets zero basis columns.
C8_ShortScanNoDrift ==
    (DriftDone /\ ScanDuration < inp.cutoff) => NDrift = 0

\* C8 (amended): a scan whose duration T*tr is shorter than half the cutoff
\* period (2*T*tr < cutoff) gets zero basis columns, on T rows.
C8_HalfCutoffNoDrift ==
    (DriftDone /\ 2 * ScanDuration < inp.cutoff) =>
        /\ NDrift = 0
        /\ out.frame.index = inp.T

C8_Witness ==
    /\ DriftDone
    /\ inp.T >= 2
    /\ 2 * ScanDuration = inp.cutoff - 1
    /\ NDrift = 0

Max(a, b) == IF a > b THEN a ELSE b

ExpectedK == Max(0, (2 * inp.T * inp.tr) \div inp.cutoff)

\* C9: cosine_drift_terms builds max(0, floor(2*T*tr/cutoff)) basis vectors
\* (all of them returned when that number is below T); T=100, tr=2,
\* cutoff=128 gives exactly 3 drift columns, T=10, tr=2, cutoff=128 gives
\* none, and with no basis vector the result is an empty table of T rows,
\* not an error.
C9_DriftCount ==
    DriftDone =>
        /\ Len(out.built) = ExpectedK
        /\ ExpectedK < inp.T => NDrift = ExpectedK
        /\ inp = [T |-> 100, tr |-> 2, cutoff |-> 128] => NDrift = 3
        /\ inp = [T |-> 10, tr |-> 2, cutoff |-> 128] => NDrift = 0
        /\ ExpectedK = 0 => /\ err = NoErr
                            /\ NDrift = 0
                            /\ out.frame.data = <<>>
                            /\ out.frame.index = inp.T

C9_Witness ==
    /\ DriftDone
    /\ inp = [T |-> 100, tr |-> 2, cutoff |-> 128]
    /\ out.frame.columns = <<"cosine_00", "cosine_01", "cosine_02">>
    /\ \A i \in 1..3 : Len(out.frame.data[i]) = 100

\* the basis vectors that pass the constant-column check
Survivors == {k \in 1..Len(out.built) : NonConstant(out.built[k])}

DigitValue(ch) == CHOOSE v \in 0..9 : Digit(v) = ch

IsDigit(ch) == \E v \in 0..9 : Digit(v) = ch

RECURSIVE ParseDec(_)
ParseDec(str) ==
    IF Len(str) = 0 THEN 0
    ELSE 10 * ParseDec(SubSeq(str, 1, Len(str) - 1))
           + DigitValue(SubSeq(str, Len(str), Len(str)))

\* C10: whatever the constant-column check removes, the i-th returned column
\* (i from 0) is the i-th surviving basis vector and is named cosine_ followed
\* by i zero-padded to two digits: consecutive from 00, without gaps.
C10_DriftNames ==
    DriftDone =>
        /\ NDrift = Cardinality(Survivors)
        /\ Len(out.frame.data) = NDrift
        /\ \A i \in 1..NDrift :
             LET name == out.frame.columns[i]
                 sfx == SubSeq(name, 8, Len(name))
             IN  /\ SubSeq(name, 1, 7) = "cosine_"
                 /\ Len(sfx) >= 2
                 /\ i <= 100 => Len(sfx) = 2
                 /\ \A j \in 1..Len(sfx) : IsDigit(SubSeq(sfx, j, j))
                 /\ ParseDec(sfx) = i - 1
                 /\ \E k \in Survivors :
                      /\ Cardinality({j \in Survivors : j < k}) = i - 1
                      /\ out.frame.data[i] = out.built[k]

C10_Witness ==
    /\ DriftDone
    /\ Len(out.built) = 3
    /\ ~NonConstant(out.built[2])
    /\ out.frame.columns = <<"cosine_00", "cosine_01">>
    /\ out.frame.data = <<out.built[1], out.built[3]>>


(***************************************************************************)
(* The file system: a log of writes; a path holds what was written last.   *)
(***************************************************************************)
WriteFile(files, path, data) == Append(files, [path |-> path, data |-> data])

Exists(files, path) == \E i \in 1..Len(files) : files[i].path = path

ReadFile(files, path) ==
    LET last == CHOOSE i \in 1..Len(files) :
                    /\ files[i].path = path
                    /\ \A j \in (i + 1)..Len(files) : files[j].path # path
    IN  files[last].data

\* os.path.join
Join(a, b) == a \o "/" \o b

(***************************************************************************)
(* aseg_to_masks (the two variants are the same).  The functional grid is  *)
(* a line of NVox voxels; the segmentation is given on that grid, where    *)
(* nearest-neighbour resampling is the identity.                           *)
(***************************************************************************)
WM_LABELS == {2, 41}

GM_CORTEX_LABELS == {3, 42}

CSF_LABELS == {4, 43, 14, 15, 24}

\* label codes of the modelled segmentations: background, white matter,
\* cortex, lateral ventricle
AsegCodes == {0, 2, 3, 4}

Asegs == [Voxels -> AsegCodes]

\* The order in which a Python set is iterated is internal to the
\* interpreter process; a process is modelled with one of two orders.
HashSeeds == {0, 1}

RECURSIVE AscendingInts(_)
AscendingInts(S) ==
    IF S = {} THEN <<>>
    ELSE LET least == CHOOSE x \in S : \A y \in S : x <= y
         IN  <<least>> \o AscendingInts(S \ {least})

Reversed(s) == [i \in 1..Len(s) |-> s[Len(s) + 1 - i]]

\* list(labels) in a process with the given seed
ListOf(labels, seed) ==
    IF seed = 0 THEN AscendingInts(labels)
    ELSE Reversed(AscendingInts(labels))

\* a membership test that looks at the first element of the list only
IsIn_firstOnly(aseg, the_list) ==
    {v \in Voxels : Len(the_list) >= 1 /\ the_list[1] = aseg[v]}

\* np.isin(aseg, the_list), as the set of voxels that are True
IsIn(aseg, the_list) ==
    {v \in Voxels : \E i \in 1..Len(the_list) : the_list[i] = aseg[v]}

\* a pass that grows nothing
Dilate_none(m) == m

\* one pass of scipy's binary_dilation with its default structuring element
Dilate(m) == m \cup {v \in Voxels : v - 1 \in m \/ v + 1 \in m}

RECURSIVE binary_dilation(_, _)
binary_dilation(m, iterations) ==
    IF iterations = 0 THEN m ELSE binary_dilation(Dilate(m), iterations - 1)

\* the combined mask is saved under the path of the white-matter mask
aseg_to_masks_sharedPath(files, aseg, outdir, gm_dilate_iter, seed) ==
    LET brain == {v \in Voxels : aseg[v] > 0}
        wm == IsIn(aseg, ListOf(WM_LABELS, seed))
        gm == IsIn(aseg, ListOf(GM_CORTEX_LABELS, seed))
        csf == IsIn(aseg, ListOf(CSF_LABELS, seed))
        gm_dil == IF gm_dilate_iter > 0
                  THEN binary_dilation(gm, gm_dilate_iter) ELSE gm
        wm_clean == wm \ gm_dil
        csf_clean == csf \ gm_dil
        wmcsf == wm_clean \cup csf_clean
        brain_p == Join(outdir, "mask_brain.nii.gz")
        wm_p == Join(outdir, "mask_wm.nii.gz")
        csf_p == Join(outdir, "mask_csf.nii.gz")
        f1 == WriteFile(files, brain_p, brain)
        f2 == WriteFile(f1, wm_p, wm_clean)
        f3 == WriteFile(f2, csf_p, csf_clean)
        f4 == WriteFile(f3, wm_p, wmcsf)
    IN  [files |-> f4, brain_p |-> brain_p, wm_p |-> wm_p, csf_p |-> csf_p,
         wmcsf_p |-> wm_p]

aseg_to_masks(files, aseg, outdir, gm_dilate_iter, seed) ==
    LET brain == {v \in Voxels : aseg[v] > 0}
        wm == IsIn(aseg, ListOf(WM_LABELS, seed))
        gm == IsIn(aseg, ListOf(GM_CORTEX_LABELS, seed))
        csf == IsIn(aseg, ListOf(CSF_LABELS, seed))
        gm_dil == IF gm_dilate_iter > 0
                  THEN binary_dilation(gm, gm_dilate_iter) ELSE gm
        wm_clean == wm \ gm_dil
        csf_clean == csf \ gm_dil
        wmcsf == wm_clean \cup csf_clean
        brain_p == Join(outdir, "mask_brain.nii.gz")
        wm_p == Join(outdir, "mask_wm.nii.gz")
        csf_p == Join(outdir, "mask_csf.nii.gz")
        wmcsf_p == Join(outdir, "mask_wmcsf.nii.gz")
        f1 == WriteFile(files, brain_p, brain)
        f2 == WriteFile(f1, wm_p, wm_clean)
        f3 == WriteFile(f2, csf_p, csf_clean)
        f4 == WriteFile(f3, wmcsf_p, wmcsf)
    IN  [files |-> f4, brain_p |-> brain_p, wm_p |-> wm_p, csf_p |-> csf_p,
         wmcsf_p |-> wmcsf_p]

(***************************************************************************)
(* Command lines of main.                                                  *)
(***************************************************************************)
\* one 4-D volume for each frame count, and one 3-D volume
MainBolds ==
    {[ndim |-> 4,
      frames |-> [t \in 1..T |-> [v \in Voxels |-> Num((t * v) % 2)]]] :
        T \in 1..MaxT}
    \cup {[ndim |-> 3, frames |-> <<>>]}

\* one six-column motion file for each row count
MainMotionFiles ==
    {[r \in 1..R |-> [c \in 1..6 |-> Num((r + c) % 2)]] : R \in 0..(MaxT + 1)}

\* repetition times: a usual one, and one long enough for drift columns
MainTrs == {2, 32}

MainInputs ==
    [bold : MainBolds, mcpar : MainMotionFiles, aseg : Asegs, tr : MainTrs,
     gm_dilate_iter : 0..MaxDilate, outdir : {"out"}, outfile : {"cf"},
     allow_empty : BOOLEAN]

\* conf[name] = values: replaces or appends a column; pandas refuses values
\* whose length is not the length of the index
SetCol(df, name, values) ==
    IF Len(values) # df.index
    THEN Raise(Error("ValueError",
                     "Length of values does not match length of index",
                     name, <<Len(values), df.index>>))
    ELSE IF HasCol(df, name)
         THEN Ok(Frame(df.index, df.columns,
                       [i \in 1..Len(df.columns) |->
                          IF i = ColPos(df, name) THEN values
                          ELSE df.data[i]]))
         ELSE Ok(Frame(df.index, Append(df.columns, name),
                       Append(df.data, values)))

(***************************************************************************)
(* The external nipype steps.  What they compute is outside the repository; *)
(* an outcome is the series (or table) read back from their output file,   *)
(* of any length near T, or the failure to locate or read that file.       *)
(***************************************************************************)
\* the files the steps leave in the working directory
FDFile(workdir) == Join(workdir, "fd_power_2012.txt")

DvarsNstdFile(workdir) == Join(workdir, "dvars_nstd.tsv")

DvarsStdFile(workdir) == Join(workdir, "dvars_std.tsv")

ComponentsFile(workdir) == Join(workdir, "components_file.txt")

\* the files written by a DVARS run
WriteDvars(files, workdir, dv) ==
    LET f1 == IF dv.nstd.none THEN files
              ELSE WriteFile(files, DvarsNstdFile(workdir), dv.nstd.v)
    IN  IF dv.std.none THEN f1
        ELSE WriteFile(f1, DvarsStdFile(workdir), dv.std.v)

\* a series of l values, none of them 0: base + 1, ..., base + l
ExtSeries(l, base) == [i \in 1..l |-> Num(base + i)]

ExtLengths(T) == {l \in (T - 2)..(T + 1) : l >= 0}

\* run_fd: RuntimeError when no output is located, else the first column
FDOutcomes(T) ==
    {Raise(Error("RuntimeError", "Could not locate FD output in", "", <<>>))}
    \cup {Ok(ExtSeries(l, 0)) : l \in ExtLengths(T)}

\* run_dvars: the pair (dvars_nstd, dvars_std), each None when its output
\* is not located
DVARSOutcomes(T) ==
    {[nstd |-> None, std |-> None]}
    \cup {[nstd |-> Some(ExtSeries(l, 0)), std |-> Some(ExtSeries(l, 10))] :
            l \in ExtLengths(T)}

(***************************************************************************)
(* main, experimental variant, one action for each stage of the function.  *)
(***************************************************************************)
InitExp ==
    /\ pc = "exp_start"
    /\ inp \in MainInputs
    /\ out = NoFrame
    /\ err = NoErr
    /\ MainIdle

\* leave main with an exception
ExpFail(e) ==
    /\ pc' = "exp_failed"
    /\ err' = e

\* the motion file is loaded but its row count is not compared with T
ExpLoadAndCheck_noRowCheck ==
    /\ pc = "exp_start"
    /\ UNCHANGED <<inp, out, conf, fs>>
    /\ IF inp.bold.ndim # 4
       THEN /\ ExpFail(Error("ValueError", "BOLD must be 4D.", "", <<>>))
            /\ UNCHANGED loc
       ELSE LET T == Len(inp.bold.frames)
                mp == load_mcflirt_par(inp.mcpar)
            IN  /\ loc' = [loc EXCEPT !.T = T]
                /\ IF Raised(mp) THEN ExpFail(mp.err)
                   ELSE /\ pc' = "exp_masks"
                        /\ UNCHANGED err

\* lines 292-306: directories, the BOLD frame count and the motion row check
ExpLoadAndCheck ==
    /\ pc = "exp_start"
    /\ UNCHANGED <<inp, out, conf, fs>>
    /\ IF inp.bold.ndim # 4
       THEN /\ ExpFail(Error("ValueError", "BOLD must be 4D.", "", <<>>))
            /\ UNCHANGED loc
       ELSE LET T == Len(inp.bold.frames)
                mp == load_mcflirt_par(inp.mcpar)
            IN  /\ loc' = [loc EXCEPT !.T = T]
                /\ IF Raised(mp) THEN ExpFail(mp.err)
                   ELSE IF mp.val.shape[1] # T
                   THEN ExpFail(Error("ValueError",
                            "Motion rows != BOLD timepoints", "",
                            <<mp.val.shape[1], T>>))
                   ELSE /\ pc' = "exp_masks"
                        /\ UNCHANGED err

\* lines 308-311
ExpMasks ==
    /\ pc = "exp_masks"
    /\ \E seed \in HashSeeds :
         LET r == aseg_to_masks(fs, inp.aseg, Join(inp.outdir, "masks"),
                                inp.gm_dilate_iter, seed)
         IN  /\ fs' = r.files
             /\ loc' = [loc EXCEPT !.brain_mask = r.brain_p,
                                   !.wm_mask = r.wm_p,
                                   !.csf_mask = r.csf_p,
                                   !.wmcsf_mask = r.wmcsf_p,
                                   !.hashseed = seed]
    /\ pc' = "exp_motion"
    /\ UNCHANGED <<inp, out, err, conf>>

\* lines 313-314
ExpMotion ==
    /\ pc = "exp_motion"
    /\ LET r == motion_df_from_mcflirt(inp.mcpar)
       IN  IF Raised(r)
           THEN ExpFail(r.err) /\ UNCHANGED conf
           ELSE /\ conf' = r.val
                /\ pc' = "exp_signals"
                /\ UNCHANGED err
    /\ UNCHANGED <<inp, out, fs, loc>>

GsBase == <<"global_signal", "white_matter", "csf">>

\* conf[name] = mean_signal(bold, mask file); the table is left as it is
\* when mean_signal raises
SetMean(r, name, mask_path) ==
    IF Raised(r) THEN r
    ELSE LET ms == mean_signal(inp.bold.frames, ReadFile(fs, mask_path),
                               inp.allow_empty)
         IN  IF Raised(ms) THEN [err |-> ms.err, val |-> r.val]
             ELSE SetCol(r.val, name, ms.val)

\* the derivative-square columns of the mean signals are filled with the
\* squares of the base columns
ExpMeanSignals_squareOfBase ==
    /\ pc = "exp_signals"
    /\ LET r1 == SetMean(Ok(conf), "global_signal", loc.brain_mask)
           r2 == SetMean(r1, "white_matter", loc.wm_mask)
           r3 == SetMean(r2, "csf", loc.csf_mask)
       IN  IF Raised(r3)
           THEN ExpFail(r3.err) /\ conf' = r3.val
           ELSE /\ LET e == add_fmriprep_expansions(r3.val, GsBase)
                       n == Len(e.columns)
                   IN  conf' = Frame(e.index, e.columns,
                                 [i \in 1..n |-> IF i > n - 3 THEN e.data[i - 3]
                                                 ELSE e.data[i]])
                /\ pc' = "exp_fd"
                /\ UNCHANGED err
    /\ UNCHANGED <<inp, out, fs, loc>>

\* lines 316-320
ExpMeanSignals ==
    /\ pc = "exp_signals"
    /\ LET r1 == SetMean(Ok(conf), "global_signal", loc.brain_mask)
           r2 == SetMean(r1, "white_matter", loc.wm_mask)
           r3 == SetMean(r2, "csf", loc.csf_mask)
       IN  IF Raised(r3)
           THEN ExpFail(r3.err) /\ conf' = r3.val
           ELSE /\ conf' = add_fmriprep_expansions(r3.val, GsBase)
                /\ pc' = "exp_fd"
                /\ UNCHANGED err
    /\ UNCHANGED <<inp, out, fs, loc>>

\* the series is merged as the step returned it, whatever its length
SetEnforced_raw(r, name, x, T) ==
    IF Raised(r) THEN r
    ELSE Ok(Frame(r.val.index, Append(r.val.columns, name),
                  Append(r.val.data, x.v)))

\* conf[name] = enforce_length_1d(name, x, T, pad_value=np.nan)
SetEnforced(r, name, x, T) ==
    IF Raised(r) THEN r
    ELSE LET e == enforce_length_1d(name, x, T, NaN)
         IN  IF Raised(e) THEN [err |-> e.err, val |-> r.val]
             ELSE SetCol(r.val, name, e.val)

\* workdir = os.path.join(outdir, outfile)
ExpWorkdir == Join(inp.outdir, inp.outfile)

\* A run that follows a finished run of the same command line (out holds
\* what the first run left; see SpecRuns).  The external steps compute
\* from the same files as in the first run, so they give the same outputs.
SecondRun == out # NoFrame

\* the files written by the first run, and by the second
FirstFiles == SubSeq(fs, 1, out.nfiles)

SecondFiles == SubSeq(fs, out.nfiles + 1, Len(fs))

ExpFDOutcomes ==
    IF SecondRun THEN {Ok(ReadFile(FirstFiles, FDFile(ExpWorkdir)))}
    ELSE FDOutcomes(loc.T)

ExpDVARSOutcomes ==
    IF SecondRun
    THEN {IF Exists(FirstFiles, DvarsNstdFile(ExpWorkdir))
          THEN [nstd |-> Some(ReadFile(FirstFiles, DvarsNstdFile(ExpWorkdir))),
                std |-> Some(ReadFile(FirstFiles, DvarsStdFile(ExpWorkdir)))]
          ELSE [nstd |-> None, std |-> None]}
    ELSE DVARSOutcomes(loc.T)

\* lines 322-326
ExpFD ==
    /\ pc = "exp_fd"
    /\ \E fd_vals \in ExpFDOutcomes :
         IF Raised(fd_vals)
         THEN ExpFail(fd_vals.err) /\ UNCHANGED <<conf, fs>>
         ELSE LET r == SetEnforced(Ok(conf), "framewise_displacement",
                                   Some(fd_vals.val), loc.T)
              IN  /\ fs' = WriteFile(fs, FDFile(ExpWorkdir), fd_vals.val)
                  /\ conf' = r.val
                  /\ IF Raised(r) THEN ExpFail(r.err)
                     ELSE pc' = "exp_dvars" /\ UNCHANGED err
    /\ UNCHANGED <<inp, out, loc>>

\* lines 328-331
ExpDVARS ==
    /\ pc = "exp_dvars"
    /\ \E dv \in ExpDVARSOutcomes :
         LET r1 == SetEnforced(Ok(conf), "dvars", dv.nstd, loc.T)
             r2 == SetEnforced(r1, "std_dvars", dv.std, loc.T)
         IN  /\ fs' = WriteDvars(fs, ExpWorkdir, dv)
             /\ conf' = r2.val
             /\ IF Raised(r2) THEN ExpFail(r2.err)
                ELSE pc' = "exp_acompcor" /\ UNCHANGED err
    /\ UNCHANGED <<inp, out, loc>>

(***************************************************************************)
(* Strings: prefix test and Python's ordering of str (by code point) for   *)
(* the characters column names are made of.                                *)
(***************************************************************************)
StartsWith(str, prefix) ==
    /\ Len(str) >= Len(prefix)
    /\ SubSeq(str, 1, Len(prefix)) = prefix

CodeOrder == "0123456789_abcdefghijklmnopqrstuvwxyz"

CharRank(ch) == CHOOSE i \in 1..Len(CodeOrder) : SubSeq(CodeOrder, i, i) = ch

RECURSIVE LexLess(_, _)
LexLess(a, b) ==
    IF Len(b) = 0 THEN FALSE
    ELSE IF Len(a) = 0 THEN TRUE
    ELSE LET ra == CharRank(SubSeq(a, 1, 1))
             rb == CharRank(SubSeq(b, 1, 1))
         IN  IF ra # rb THEN ra < rb
             ELSE LexLess(SubSeq(a, 2, Len(a)), SubSeq(b, 2, Len(b)))

\* insert a name into a sorted list, after its equals
RECURSIVE Insert(_, _)
Insert(sorted, name) ==
    IF sorted = <<>> THEN <<name>>
    ELSE IF LexLess(name, sorted[1]) THEN <<name>> \o sorted
    ELSE <<sorted[1]>> \o Insert(Tail(sorted), name)

\* sorted(names)
RECURSIVE Sorted(_)
Sorted(names) ==
    IF names = <<>> THEN <<>>
    ELSE Insert(Sorted(SubSeq(names, 1, Len(names) - 1)), names[Len(names)])

(***************************************************************************)
(* run_acompcor_single and the last stages of the experimental main.       *)
(***************************************************************************)
\* header of a components file: nipype's own names, or names that already
\* carry the a_comp_cor_ prefix, first to last or last to first
CompHeaders(n) ==
    {[i \in 1..n |-> "a_comp_cor" \o Fmt02d(i - 1)],
     [i \in 1..n |-> "a_comp_cor_" \o Fmt02d(i - 1)],
     [i \in 1..n |-> "a_comp_cor_" \o Fmt02d(n - i)]}

\* the components file as read by pd.read_csv: n columns of r rows
CompTables(T) ==
    {Frame(r, h, [i \in 1..n |-> ExtSeries(r, 10 * i)]) :
        <<n, r, h>> \in {<<n, r, h>> \in
            (1..MaxComp) \X ExtLengths(T) \X
                UNION {CompHeaders(k) : k \in 1..MaxComp} :
            Len(h) = n /\ r \in {T - 1, T}}}

\* outcomes of cc.run and of locating and reading components_file
CompCorOutcomes(T) ==
    {Raise(Error("RuntimeError",
                 "Could not locate CompCor components_file in", "", <<>>))}
    \cup {Ok(t) : t \in CompTables(T)}

\* CompCor on a mask that selects no voxel: run_acompcor_single holds no
\* test of its own and the step decomposes a matrix without columns:
\* nipype's decomposition raises, or the file it leaves has no column for
\* pd.read_csv to parse.
EmptyMaskOutcomes ==
    {Raise(Error("LinAlgError", "SVD did not converge", "", <<>>)),
     Raise(Error("EmptyDataError", "No columns to parse from file", "",
                 <<>>))}

ExpCompCorOutcomes ==
    IF SecondRun THEN {Ok(ReadFile(FirstFiles, ComponentsFile(ExpWorkdir)))}
    ELSE IF ReadFile(fs, loc.wmcsf_mask) = {} THEN EmptyMaskOutcomes
    ELSE CompCorOutcomes(loc.T)

\* lines 220-231: the column names enforced on the components table
run_acompcor_single(outcome) ==
    IF Raised(outcome) THEN outcome
    ELSE LET comps == outcome.val
             new_cols == [i \in 1..Len(comps.columns) |->
                            IF StartsWith(comps.columns[i], "a_comp_cor_")
                            THEN comps.columns[i]
                            ELSE "a_comp_cor_" \o Fmt02d(i - 1)]
         IN  Ok(Frame(comps.index, new_cols, comps.data))

\* for c in df.columns: conf[c] = df[c].to_numpy()
RECURSIVE SetCols(_, _, _)
SetCols(r, df, i) ==
    IF Raised(r) \/ i > Len(df.columns) THEN r
    ELSE SetCols(SetCol(r.val, df.columns[i], df.data[i]), df, i + 1)

\* the component columns are merged without the row count being compared
\* with T
ExpACompCor_noRowCheck ==
    /\ pc = "exp_acompcor"
    /\ \E outcome \in ExpCompCorOutcomes :
         LET acomps == run_acompcor_single(outcome)
         IN  IF Raised(acomps)
             THEN ExpFail(acomps.err) /\ UNCHANGED <<conf, fs>>
             ELSE /\ fs' = WriteFile(fs, ComponentsFile(ExpWorkdir),
                                     outcome.val)
                  /\ LET r == SetCols(Ok(conf), acomps.val, 1)
                     IN  /\ conf' = r.val
                         /\ IF Raised(r) THEN ExpFail(r.err)
                            ELSE pc' = "exp_cosine" /\ UNCHANGED err
    /\ UNCHANGED <<inp, out, loc>>

\* lines 333-339
ExpACompCor ==
    /\ pc = "exp_acompcor"
    /\ \E outcome \in ExpCompCorOutcomes :
         LET acomps == run_acompcor_single(outcome)
         IN  IF Raised(acomps)
             THEN ExpFail(acomps.err) /\ UNCHANGED <<conf, fs>>
             ELSE /\ fs' = WriteFile(fs, ComponentsFile(ExpWorkdir),
                                     outcome.val)
                  /\ IF acomps.val.index # loc.T
                     THEN /\ ExpFail(Error("ValueError",
                                "aCompCor rows != BOLD timepoints", "",
                                <<acomps.val.index, loc.T>>))
                          /\ UNCHANGED conf
                     ELSE LET r == SetCols(Ok(conf), acomps.val, 1)
                          IN  /\ conf' = r.val
                              /\ IF Raised(r) THEN ExpFail(r.err)
                                 ELSE pc' = "exp_cosine" /\ UNCHANGED err
    /\ UNCHANGED <<inp, out, loc>>

\* lines 341-344
ExpCosine ==
    /\ pc = "exp_cosine"
    /\ LET cos == cosine_drift_terms(loc.T, inp.tr, DefaultCutoff).frame
           r == SetCols(Ok(conf), cos, 1)
       IN  /\ conf' = r.val
           /\ IF Raised(r) THEN ExpFail(r.err)
              ELSE pc' = "exp_order" /\ UNCHANGED err
    /\ UNCHANGED <<inp, out, fs, loc>>

InSeq(x, names) == \E i \in 1..Len(names) : names[i] = x

\* the ordering with the drift columns put before the component columns
Preferred_driftFirst(df) ==
    LET acomp_cols == Sorted(SelectSeq(df.columns,
                          LAMBDA c : StartsWith(c, "a_comp_cor_")))
        cosine_cols == Sorted(SelectSeq(df.columns,
                          LAMBDA c : StartsWith(c, "cosine_")))
    IN  MotionBase \o Suffixed(MotionBase, "_derivative1")
          \o Suffixed(MotionBase, "_power2")
          \o Suffixed(MotionBase, "_derivative1_power2")
          \o GsBase \o Suffixed(GsBase, "_derivative1")
          \o Suffixed(GsBase, "_power2")
          \o Suffixed(GsBase, "_derivative1_power2")
          \o <<"framewise_displacement", "dvars", "std_dvars">>
          \o cosine_cols \o acomp_cols

\* lines 347-366
Preferred(df) ==
    LET acomp_cols == Sorted(SelectSeq(df.columns,
                          LAMBDA c : StartsWith(c, "a_comp_cor_")))
        cosine_cols == Sorted(SelectSeq(df.columns,
                          LAMBDA c : StartsWith(c, "cosine_")))
    IN  MotionBase \o Suffixed(MotionBase, "_derivative1")
          \o Suffixed(MotionBase, "_power2")
          \o Suffixed(MotionBase, "_derivative1_power2")
          \o GsBase \o Suffixed(GsBase, "_derivative1")
          \o Suffixed(GsBase, "_power2")
          \o Suffixed(GsBase, "_derivative1_power2")
          \o <<"framewise_displacement", "dvars", "std_dvars">>
          \o acomp_cols \o cosine_cols

\* conf[names]
SelectCols(df, names) ==
    Frame(df.index, names, [i \in 1..Len(names) |-> Col(df, names[i])])

\* only the columns of fixed name are kept
Reorder_fixedOnly(df) == SelectCols(df, SubSeq(Preferred(df), 1, 39))

\* lines 367-369
Reorder(df) ==
    LET preferred == Preferred(df)
        remaining == SelectSeq(df.columns, LAMBDA c : ~InSeq(c, preferred))
    IN  SelectCols(df, preferred \o remaining)

\* a cell written without na_rep: pandas leaves a missing value empty
Cell_noNaRep(v) == IF IsNaN(v) THEN <<"">> ELSE <<v.k, v.n, v.d>>

\* one cell of the file: the token n/a for a missing value (na_rep), else
\* the number
Cell(v) == IF IsNaN(v) THEN <<"n/a">> ELSE <<v.k, v.n, v.d>>

\* df.to_csv(path, sep="\t", index=False, na_rep="n/a")
to_csv(df) ==
    [header |-> df.columns,
     rows |-> [t \in 1..df.index |->
                 [i \in 1..Len(df.columns) |-> Cell(df.data[i][t])]]]

\* the table is ordered and written before the drift stage has run
ExpOrderAndWrite_early ==
    /\ pc = "exp_cosine"
    /\ conf' = Reorder(conf)
    /\ fs' = WriteFile(fs, Join(inp.outdir, inp.outfile \o ".tsv"),
                       to_csv(conf'))
    /\ pc' = "exp_done"
    /\ UNCHANGED <<inp, out, err, loc>>

\* lines 346-373
ExpOrderAndWrite ==
    /\ pc = "exp_order"
    /\ conf' = Reorder(conf)
    /\ fs' = WriteFile(fs, Join(inp.outdir, inp.outfile \o ".tsv"),
                       to_csv(conf'))
    /\ pc' = "exp_done"
    /\ UNCHANGED <<inp, out, err, loc>>

NextExp ==
    \/ ExpLoadAndCheck
    \/ ExpMasks
    \/ ExpMotion
    \/ ExpMeanSignals
    \/ ExpFD
    \/ ExpDVARS
    \/ ExpACompCor
    \/ ExpCosine
    \/ ExpOrderAndWrite

SpecExp == InitExp /\ [][NextExp]_vars

ExpEnded == pc \in {"exp_failed", "exp_done"}

\* the BOLD volume has frames and the motion file has six columns
CountsDefined(bold, mcpar) ==
    /\ bold.ndim = 4
    /\ \A r \in 1..Len(mcpar) : Len(mcpar[r]) = 6

\* the error main raises for a motion file of rows rows against T frames
IsLengthMismatch(e, rows, T) ==
    /\ e.type = "ValueError"
    /\ e.text = "Motion rows != BOLD timepoints"
    /\ e.nums = <<rows, T>>

\* C2: whenever the row count of the motion file differs from the frame
\* count T of the BOLD volume, main (experimental variant) fails with a
\* length-mismatch error whose message holds both counts.
C2_MismatchFails ==
    (/\ pc # "exp_start"
     /\ CountsDefined(inp.bold, inp.mcpar)
     /\ Len(inp.mcpar) >= 1
     /\ Len(inp.mcpar) # Len(inp.bold.frames)) =>
        /\ pc = "exp_failed"
        /\ IsLengthMismatch(err, Len(inp.mcpar), Len(inp.bold.frames))

FDWritten == HasCol(conf, "framewise_displacement")

\* C6: in the assembled table the framewise_displacement of frame 0 is a
\* defined number, never the missing-value marker, also when the
\* framewise-displacement step returns only T-1 values.
C6_FirstFDDefined ==
    (pc \in {"exp_dvars", "exp_acompcor", "exp_cosine", "exp_order",
             "exp_done"} /\ FDWritten) =>
        ~IsNaN(Col(conf, "framewise_displacement")[1])

\* the confound table file of the experimental variant
ExpTable == Join(inp.outdir, inp.outfile \o ".tsv")

ExpTableWritten == pc = "exp_done" /\ Exists(fs, ExpTable)

\* the columns every table has, in the order the specification gives
FixedOrder ==
    <<"trans_x", "trans_y", "trans_z", "rot_x", "rot_y", "rot_z",
      "trans_x_derivative1", "trans_y_derivative1", "trans_z_derivative1",
      "rot_x_derivative1", "rot_y_derivative1", "rot_z_derivative1",
      "trans_x_power2", "trans_y_power2", "trans_z_power2",
      "rot_x_power2", "rot_y_power2", "rot_z_power2",
      "trans_x_derivative1_power2", "trans_y_derivative1_power2",
      "trans_z_derivative1_power2", "rot_x_derivative1_power2",
      "rot_y_derivative1_power2", "rot_z_derivative1_power2",
      "global_signal", "white_matter", "csf",
      "global_signal_derivative1", "white_matter_derivative1",
      "csf_derivative1",
      "global_signal_power2", "white_matter_power2", "csf_power2",
      "global_signal_derivative1_power2", "white_matter_derivative1_power2",
      "csf_derivative1_power2",
      "framewise_displacement", "dvars", "std_dvars">>

NameSet(names) == {names[i] : i \in 1..Len(names)}

\* the names of a set, smallest first
RECURSIVE Ascending(_)
Ascending(S) ==
    IF S = {} THEN <<>>
    ELSE LET least == CHOOSE x \in S : \A y \in S \ {x} : LexLess(x, y)
         IN  <<least>> \o Ascending(S \ {least})

IsComponentName(c) == StartsWith(c, "a_comp_cor_")

IsDriftName(c) == StartsWith(c, "cosine_")

\* the order the specification gives to a table assembled with columns cols
ExpectedOrder(cols) ==
    FixedOrder
      \o Ascending({c \in NameSet(cols) : IsComponentName(c)})
      \o Ascending({c \in NameSet(cols) : IsDriftName(c)})
      \o SelectSeq(cols, LAMBDA c : /\ ~InSeq(c, FixedOrder)
                                    /\ ~IsComponentName(c)
                                    /\ ~IsDriftName(c))

\* C11: the columns of the persisted confound table appear in this order:
\* the 6 raw motion columns, their 6 derivatives, 6 squares and 6
\* derivative-squares; global_signal, white_matter, csf with the same
\* expansion; framewise_displacement; dvars, std_dvars; the component
\* columns sorted by name; the drift columns sorted by name; then every
\* other column in the order it was added.
C11_ColumnOrder ==
    [][pc = "exp_order" =>
          /\ Exists(fs', ExpTable')
          /\ ReadFile(fs', ExpTable').header = ExpectedOrder(conf.columns)
          /\ conf'.columns = ExpectedOrder(conf.columns)]_vars

\* a table with two component columns and a drift column has been written
C11_Witness ==
    /\ ExpTableWritten
    /\ LET header == ReadFile(fs, ExpTable).header
       IN  /\ Len(header) = 42
           /\ SubSeq(header, 40, 42) =
                <<"a_comp_cor_00", "a_comp_cor_01", "cosine_00">>

AllZero(aseg) == \A v \in Voxels : aseg[v] = 0

MasksWritten == Exists(fs, Join(Join(inp.outdir, "masks"), "mask_wmcsf.nii.gz"))

\* the stage a failed run stopped in, read from the columns it had merged
FailedStage ==
    IF ~HasCol(conf, "global_signal_derivative1") THEN "signals"
    ELSE IF ~HasCol(conf, "framewise_displacement") THEN "fd"
    ELSE IF ~HasCol(conf, "std_dvars") THEN "dvars"
    ELSE "acompcor"

\* an error that reports a mask without voxels
IsEmptyMaskError(e) ==
    \/ e.text = "The mask is invalid as it is empty"
    \/ e.type \in {"LinAlgError", "EmptyDataError"}

\* C14: when the segmentation volume is all zero, so that the white-matter,
\* CSF and combined masks select no voxel, a run whose framewise
\* displacement and DVARS steps succeed fails in component extraction with
\* an empty-mask error, and no confound table is written.
C14_EmptyMaskFails ==
    (AllZero(inp.aseg) /\ MasksWritten /\ ExpEnded) =>
        /\ pc = "exp_failed"
        /\ ~Exists(fs, ExpTable)
        /\ \/ FailedStage \in {"fd", "dvars"}
           \/ FailedStage = "acompcor" /\ IsEmptyMaskError(err)

\* the voxels within n steps of a cortex voxel of the segmentation
GrayWithin(aseg, n) ==
    {v \in Voxels : \E u \in Voxels : /\ aseg[u] \in GM_CORTEX_LABELS
                                       /\ Abs(u - v) <= n}

\* C15: for every label volume and every dilation iteration count >= 0 the
\* white-matter mask and the CSF mask written by aseg_to_masks hold no
\* voxel of the dilated gray-matter mask, and the combined mask written is
\* exactly the union of the white-matter and CSF masks written.
C15_MasksExclusive ==
    MasksWritten =>
        LET wm == ReadFile(fs, Join(Join(inp.outdir, "masks"),
                                    "mask_wm.nii.gz"))
            csf == ReadFile(fs, Join(Join(inp.outdir, "masks"),
                                     "mask_csf.nii.gz"))
            wmcsf == ReadFile(fs, Join(Join(inp.outdir, "masks"),
                                       "mask_wmcsf.nii.gz"))
            gm_dil == GrayWithin(inp.aseg, inp.gm_dilate_iter)
        IN  /\ wm \cap gm_dil = {}
            /\ csf \cap gm_dil = {}
            /\ wmcsf = wm \cup csf

\* masks were written, with one dilation pass, for a segmentation whose
\* white-matter voxel lies next to a cortex voxel and is removed
C15_Witness ==
    /\ MasksWritten
    /\ inp.gm_dilate_iter = 1
    /\ \E u, v \in Voxels : /\ Abs(u - v) = 1
                            /\ inp.aseg[u] \in GM_CORTEX_LABELS
                            /\ inp.aseg[v] \in WM_LABELS
    /\ ReadFile(fs, loc.wm_mask) = {}

\* every column of the table df has n entries
Rectangular(df, n) ==
    /\ df.index = n
    /\ Len(df.data) = Len(df.columns)
    /\ \A i \in 1..Len(df.data) : Len(df.data[i]) = n

Writes(files, path) ==
    Cardinality({i \in 1..Len(files) : files[i].path = path})

MaskNames ==
    {"mask_brain.nii.gz", "mask_wm.nii.gz", "mask_csf.nii.gz",
     "mask_wmcsf.nii.gz"}

MaskPaths == {Join(Join(inp.outdir, "masks"), n) : n \in MaskNames}

\* what each stage of the experimental main leaves when it has succeeded
MotionChecked == Len(inp.mcpar) = Len(inp.bold.frames) /\ inp.bold.ndim = 4

MasksBuilt == \A p \in MaskPaths : Exists(fs, p)

MeansMerged(header) ==
    \A c \in NameSet(GsBase) \cup NameSet(Suffixed(GsBase, "_derivative1")) :
        InSeq(c, header)

FDMerged(header) ==
    /\ Exists(fs, FDFile(ExpWorkdir))
    /\ InSeq("framewise_displacement", header)

DVARSMerged(header) == InSeq("dvars", header) /\ InSeq("std_dvars", header)

ComponentsMerged(header) ==
    /\ Exists(fs, ComponentsFile(ExpWorkdir))
    /\ InSeq("a_comp_cor_00", header)

DriftMerged(header) ==
    2 * Len(inp.bold.frames) * inp.tr >= DefaultCutoff =>
        InSeq("cosine_00", header)

\* C17: in every run the confound table file is written at most once, and
\* only after the motion check, mask building, mean-signal extraction,
\* framewise displacement, DVARS, component extraction and drift-basis
\* stages have all succeeded; if any stage fails, no confound table file
\* is written.
C17_WrittenOnceComplete ==
    /\ Writes(fs, ExpTable) <= 1
    /\ pc = "exp_failed" => ~Exists(fs, ExpTable)
    /\ Exists(fs, ExpTable) =>
          LET header == ReadFile(fs, ExpTable).header
          IN  /\ pc = "exp_done"
              /\ err = NoErr
              /\ MotionChecked
              /\ MasksBuilt
              /\ MeansMerged(header)
              /\ FDMerged(header)
              /\ DVARSMerged(header)
              /\ ComponentsMerged(header)
              /\ DriftMerged(header)

\* a run has gone through every stage and has written its table, the last
\* file written, with a drift column
C17_Witness ==
    /\ pc = "exp_done"
    /\ Writes(fs, ExpTable) = 1
    /\ fs[Len(fs)].path = ExpTable
    /\ InSeq("cosine_00", fs[Len(fs)].data.header)

\* the motion file and the volume disagree on the number of frames
RowMismatch ==
    /\ CountsDefined(inp.bold, inp.mcpar)
    /\ Len(inp.mcpar) # Len(inp.bold.frames)

\* the files the external steps leave in the working directory
ExternalFiles ==
    {FDFile(ExpWorkdir), DvarsNstdFile(ExpWorkdir), DvarsStdFile(ExpWorkdir),
     ComponentsFile(ExpWorkdir)}

\* C18: the check that the motion row count equals the BOLD frame count is
\* made before any mask volume is written and before any external step
\* (framewise displacement, DVARS, CompCor) is started: on a mismatch the
\* run fails and none of the four mask files, no output of an external
\* step and no confound table exist as products of the run.
C18_CheckBeforeProducts ==
    (RowMismatch /\ pc # "exp_start") =>
        /\ pc = "exp_failed"
        /\ \A p \in MaskPaths : ~Exists(fs, p)
        /\ \A p \in ExternalFiles : ~Exists(fs, p)
        /\ ~Exists(fs, ExpTable)
        /\ fs = <<>>

\* a run on a motion file of three rows and a volume of two frames has
\* failed on the row check and has written nothing
C18_Witness ==
    /\ pc = "exp_failed"
    /\ Len(inp.mcpar) = 3
    /\ Len(inp.bold.frames) = 2
    /\ IsLengthMismatch(err, 3, 2)
    /\ fs = <<>>

\* the mean-signal stage of the run has succeeded
MeansStageDone ==
    \/ pc \in {"exp_fd", "exp_dvars", "exp_acompcor", "exp_cosine",
               "exp_order", "exp_done"}
    \/ pc = "exp_failed" /\ FailedStage # "signals"

\* the mask file a mean-signal column is extracted with
MaskOf(c) ==
    CASE c = "global_signal" -> loc.brain_mask
      [] c = "white_matter" -> loc.wm_mask
      [] c = "csf" -> loc.csf_mask

\* C21: for each of global_signal, white_matter and csf the assembled
\* table holds the base column and its _derivative1, _power2 and
\* _derivative1_power2 columns, computed by the rules of the motion
\* expansion (backward difference with 0 in frame 0, elementwise square,
\* square of the derivative), also for a mean series that is the
\* missing-value marker in every frame (the series of an empty mask).
C21_MeanExpansions ==
    MeansStageDone =>
        \A c \in NameSet(GsBase) :
            /\ HasCol(conf, c)
            /\ HasCol(conf, c \o "_derivative1")
            /\ HasCol(conf, c \o "_power2")
            /\ HasCol(conf, c \o "_derivative1_power2")
            /\ LET x == Col(conf, c)
                   d == Col(conf, c \o "_derivative1")
                   T == Len(inp.bold.frames)
               IN  /\ Len(x) = T
                   /\ ReadFile(fs, MaskOf(c)) = {} =>
                         \A t \in 1..T : x[t] = NaN
                   /\ d = [t \in 1..T |-> IF t = 1 THEN Num(0)
                                          ELSE FSub(x[t], x[t - 1])]
                   /\ Col(conf, c \o "_power2") =
                         [t \in 1..T |-> FMul(x[t], x[t])]
                   /\ Col(conf, c \o "_derivative1_power2") =
                         [t \in 1..T |-> FMul(d[t], d[t])]

\* a table of three frames has been written whose csf series is missing in
\* every frame (its derivative is 0 in frame 0 and missing after it) and
\* whose global signal changes between frames
C21_Witness ==
    /\ ExpTableWritten
    /\ conf.index = 3
    /\ Col(conf, "csf") = <<NaN, NaN, NaN>>
    /\ Col(conf, "csf_derivative1") = <<Num(0), NaN, NaN>>
    /\ Col(conf, "csf_derivative1_power2") = <<Num(0), NaN, NaN>>
    /\ Col(conf, "global_signal_derivative1")[2] # Num(0)
    /\ Col(conf, "global_signal_power2")[1] # Num(0)

\* the components file of the run holds a table of rows rows
ComponentRows(rows) ==
    /\ Exists(fs, ComponentsFile(ExpWorkdir))
    /\ ReadFile(fs, ComponentsFile(ExpWorkdir)).index = rows

\* the error of line 337 for a table of rows rows against T frames
IsComponentMismatch(e, rows, T) ==
    /\ e.type = "ValueError"
    /\ e.text = "aCompCor rows != BOLD timepoints"
    /\ e.nums = <<rows, T>>

\* C23: when the component table returned by the CompCor step has a row
\* count different from T, main fails with an error that names aCompCor
\* and states the row count and T, and no component column has been
\* merged into the confound table when the error is raised.
C23_ComponentRowsChecked ==
    \A rows \in 0..(MaxT + 1) :
        (ComponentRows(rows) /\ rows # Len(inp.bold.frames)) =>
            /\ pc = "exp_failed"
            /\ IsComponentMismatch(err, rows, Len(inp.bold.frames))
            /\ \A i \in 1..Len(conf.columns) :
                  ~IsComponentName(conf.columns[i])
            /\ Len(conf.columns) = Len(FixedOrder)
            /\ ~Exists(fs, ExpTable)

\* a run over three frames has failed on a components file of two rows
C23_Witness ==
    /\ pc = "exp_failed"
    /\ Len(inp.bold.frames) = 3
    /\ ComponentRows(2)
    /\ IsComponentMismatch(err, 2, 3)
    /\ Len(ReadFile(fs, ComponentsFile(ExpWorkdir)).columns) = 2
    /\ HasCol(conf, "std_dvars")

\* a stage that reads a mask file (mean signals, DVARS, CompCor) is about
\* to start or has started
MaskReadersStarted ==
    \/ pc \in {"exp_signals", "exp_fd", "exp_dvars", "exp_acompcor",
               "exp_cosine", "exp_order", "exp_done"}
    \/ pc = "exp_failed" /\ MasksWritten

\* C25: within one run each of the four mask files is written exactly
\* once, all four are written before any stage that reads a mask (mean
\* signals, DVARS, CompCor) starts, and no mask file is written again
\* after it has been read.  (fs is the log of all writes of the run.)
C25_MasksWrittenOnce ==
    /\ \A p \in MaskPaths : Writes(fs, p) <= 1
    /\ MaskReadersStarted =>
          /\ \A p \in MaskPaths : Writes(fs, p) = 1
          /\ \A i \in 1..4 : fs[i].path \in MaskPaths
          /\ \A i \in 5..Len(fs) : fs[i].path \notin MaskPaths

\* a run has gone through all three reading stages and has written its
\* table; the four masks are the first four writes of the run
C25_Witness ==
    /\ pc = "exp_done"
    /\ Len(fs) = 9
    /\ {fs[i].path : i \in 1..4} = MaskPaths
    /\ fs[9].path = ExpTable
    /\ ReadFile(fs, loc.csf_mask) # {}

\* how many columns of the table df carry the name c
Occurrences(df, c) ==
    Cardinality({i \in 1..Len(df.columns) : df.columns[i] = c})

\* C28: the reordering step at the end of main is a permutation of the
\* columns of the table: every column present before it appears exactly
\* once after it with its values unchanged, and no column is dropped,
\* duplicated or added, for every number of component and drift columns.
C28_ReorderPermutes ==
    [][pc = "exp_order" =>
          /\ conf'.index = conf.index
          /\ Len(conf'.columns) = Len(conf.columns)
          /\ Len(conf'.data) = Len(conf'.columns)
          /\ \A i \in 1..Len(conf.columns) :
                /\ Occurrences(conf, conf.columns[i]) = 1
                /\ Occurrences(conf', conf.columns[i]) = 1
                /\ Col(conf', conf.columns[i]) = conf.data[i]
          /\ \A i \in 1..Len(conf'.columns) :
                HasCol(conf, conf'.columns[i])]_vars

\* a table with no drift column and two component columns, merged in the
\* order a_comp_cor_01, a_comp_cor_00, has been reordered and written
C28_Witness ==
    /\ ExpTableWritten
    /\ Len(conf.columns) = 41
    /\ ~HasCol(conf, "cosine_00")
    /\ ReadFile(fs, ComponentsFile(ExpWorkdir)).columns =
          <<"a_comp_cor_01", "a_comp_cor_00">>
    /\ SubSeq(conf.columns, 40, 41) = <<"a_comp_cor_00", "a_comp_cor_01">>
    /\ Col(conf, "a_comp_cor_01") =
          ReadFile(fs, ComponentsFile(ExpWorkdir)).data[1]

(***************************************************************************)
(* Specification SpecComp: run_acompcor_single names the columns of a      *)
(* components file, whatever header the external step wrote in it.         *)
(***************************************************************************)
\* column names found in a components file: nipype's prefix + index, names
\* that already carry the a_comp_cor_ prefix, and other names
CompFileNames ==
    {"a_comp_cor00", "a_comp_cor01", "a_comp_cor_00", "a_comp_cor_01",
     "a_comp_cor_wm_00", "comp", "0"}

\* headers as pd.read_csv returns them: no name twice
CompFileHeaders ==
    {h \in UNION {[1..n -> CompFileNames] : n \in 1..MaxComp} :
        \A i, j \in 1..Len(h) : h[i] = h[j] => i = j}

\* the components file as read at line 220
CompFiles ==
    {Frame(r, h, [i \in 1..Len(h) |-> ExtSeries(r, 10 * i)]) :
        r \in 1..MaxT, h \in CompFileHeaders}

InitComp ==
    /\ MainIdle
    /\ pc = "comp_ready"
    /\ inp \in CompFiles
    /\ out = NoFrame
    /\ err = NoErr

\* lines 220-231 applied to the table read from the file
CallACompCorSingle ==
    /\ pc = "comp_ready"
    /\ LET r == run_acompcor_single(Ok(inp))
       IN  /\ out' = r.val
           /\ err' = r.err
    /\ pc' = "comp_done"
    /\ UNCHANGED <<inp, mainVars>>

NextComp == CallACompCorSingle

SpecComp == InitComp /\ [][NextComp]_vars

\* C22: every column of the table returned by run_acompcor_single is named
\* a_comp_cor_NN, NN the two-digit zero-padded zero-based position of the
\* column, so the names are pairwise distinct and sequential, whatever
\* column names the components file held.
C22_SequentialNames ==
    pc = "comp_done" =>
        /\ Len(out.columns) = Len(inp.columns)
        /\ \A i \in 1..Len(out.columns) :
              out.columns[i] = "a_comp_cor_" \o Fmt02d(i - 1)
        /\ \A i, j \in 1..Len(out.columns) :
              out.columns[i] = out.columns[j] => i = j

(***************************************************************************)
(* The old variant (s04_generate_confounds_old.py): load_motion and the    *)
(* framewise displacement of motion_metrics.  A motion file is its rows of *)
(* six values (rot_x, rot_y, rot_z, trans_x, trans_y, trans_z) and whether *)
(* its name ends in .par; a file of another name is a tab-separated table  *)
(* with a header line naming the same six columns.                         *)
(***************************************************************************)
\* rows that move about one axis: a rotation about it, a translation
\* along it, the other four values 0
OldRows ==
    {[c \in 1..6 |-> IF c = axis THEN rot
                     ELSE IF c = axis + 3 THEN trans ELSE Num(0)] :
        <<axis, rot, trans>> \in (1..3) \X MotionVals \X MotionVals}

\* motion files of 1..n rows, named .par or not
OldMotionFiles(n) ==
    [par : BOOLEAN, rows : UNION {[1..k -> OldRows] : k \in 1..n}]

radius == 50

\* the rotations are left as they are read
load_motion_noRadius(motion_file) == motion_file.rows

\* lines 199-213
load_motion(motion_file) ==
    IF motion_file.par
    THEN [t \in 1..Len(motion_file.rows) |->
            [c \in 1..6 |-> IF c <= 3
                            THEN FMul(motion_file.rows[t][c], Num(radius))
                            ELSE motion_file.rows[t][c]]]
    ELSE motion_file.rows

\* DataFrame.diff(): the first row is missing
Diff(motion) ==
    [t \in 1..Len(motion) |->
        [c \in 1..Len(motion[t]) |->
            IF t = 1 THEN NaN ELSE FSub(motion[t][c], motion[t - 1][c])]]

\* abs() of a value
FAbs(a) == IF IsNaN(a) THEN NaN ELSE Rat(Abs(a.n), a.d)

\* DataFrame.sum(1): missing values are skipped, a row of missing values
\* sums to 0
SumRows(table) ==
    [t \in 1..Len(table) |->
        SumSeq(SelectSeq(table[t], LAMBDA v : ~IsNaN(v)))]

\* Series.fillna(value)
FillNa(x, value) == [t \in 1..Len(x) |-> IF IsNaN(x[t]) THEN value ELSE x[t]]

\* lines 217-219: fd = motion.diff().abs().sum(1).fillna(0)
old_fd(motion_file) ==
    LET motion == load_motion(motion_file)
        d == Diff(motion)
        a == [t \in 1..Len(d) |-> [c \in 1..Len(d[t]) |-> FAbs(d[t][c])]]
    IN  FillNa(SumRows(a), Num(0))

(***************************************************************************)
(* Specification SpecOld: the framewise displacement of the old variant.   *)
(***************************************************************************)
InitOld ==
    /\ MainIdle
    /\ pc = "old_ready"
    /\ inp \in OldMotionFiles(MaxRows)
    /\ out = <<>>
    /\ err = NoErr

CallOldFD ==
    /\ pc = "old_ready"
    /\ out' = old_fd(inp)
    /\ pc' = "old_done"
    /\ UNCHANGED <<inp, err, mainVars>>

NextOld == CallOldFD

SpecOld == InitOld /\ [][NextOld]_vars

\* |x[t] - x[t-1]| of column c of the file, as an integer
AbsDelta(rows, t, c) == Abs(rows[t][c].n - rows[t - 1][c].n)

\* C24: in the old variant, for a .par motion file the framewise
\* displacement of frame t >= 1 is the sum over the three translations of
\* |delta| plus 50 times the sum over the three rotations of |delta|
\* between frames t-1 and t, and that of frame 0 is 0; for a motion file
\* that is not .par the rotations are not scaled by the radius.
C24_OldFD ==
    pc = "old_done" =>
        /\ Len(out) = Len(inp.rows)
        /\ out[1] = Num(0)
        /\ \A t \in 2..Len(inp.rows) :
              LET rot == AbsDelta(inp.rows, t, 1) + AbsDelta(inp.rows, t, 2)
                           + AbsDelta(inp.rows, t, 3)
                  trans == AbsDelta(inp.rows, t, 4) + AbsDelta(inp.rows, t, 5)
                             + AbsDelta(inp.rows, t, 6)
              IN  out[t] = Num(trans + (IF inp.par THEN 50 ELSE 1) * rot)

\* a .par file of two frames between which one rotation and one
\* translation change by 1: the displacement is 0, then 51
C24_Witness ==
    /\ pc = "old_done"
    /\ inp.par
    /\ Len(inp.rows) = 2
    /\ inp.rows[1][2] = Num(1) /\ inp.rows[2][2] = Num(0)
    /\ inp.rows[1][4] = Num(0) /\ inp.rows[2][4] = Num(1)
    /\ out = <<Num(0), Num(51)>>

(***************************************************************************)
(* Specification SpecConc: two runs of the experimental main execute at    *)
(* the same time with the same --outdir and different --outfile.  The      *)
(* variables pc, err, conf and loc are those of the run that is scheduled; *)
(* inp is its command line, with the other run (its command line and its   *)
(* pc, err, conf and loc) kept in the field other.  fs is the directory   *)
(* both runs write to.  A stage of main is one step, as in SpecExp.        *)
(***************************************************************************)
\* the command line of the scheduled run
RunCmd(i) ==
    [bold |-> i.bold, mcpar |-> i.mcpar, aseg |-> i.aseg, tr |-> i.tr,
     gm_dilate_iter |-> i.gm_dilate_iter, outdir |-> i.outdir,
     outfile |-> i.outfile, allow_empty |-> i.allow_empty]

\* a command line together with the run that is waiting
WithOther(cmd, o) ==
    [bold |-> cmd.bold, mcpar |-> cmd.mcpar, aseg |-> cmd.aseg,
     tr |-> cmd.tr, gm_dilate_iter |-> cmd.gm_dilate_iter,
     outdir |-> cmd.outdir, outfile |-> cmd.outfile,
     allow_empty |-> cmd.allow_empty, other |-> o]

\* segmentations made of white matter and ventricle, holding both
ConcAsegs ==
    {a \in Asegs : /\ \A v \in Voxels : a[v] \in {2, 4}
                   /\ \E v \in Voxels : a[v] = 2
                   /\ \E v \in Voxels : a[v] = 4}

\* the command line of a run over a volume of T frames
ConcCmd(T, aseg, outfile) ==
    [bold |-> [ndim |-> 4,
               frames |-> [t \in 1..T |-> [v \in Voxels |-> Num((t * v) % 2)]]],
     mcpar |-> [r \in 1..T |-> [c \in 1..6 |-> Num((r + c) % 2)]],
     aseg |-> aseg, tr |-> 2, gm_dilate_iter |-> 0, outdir |-> "out",
     outfile |-> outfile, allow_empty |-> FALSE]

\* a run that has not started
Waiting(cmd) ==
    [pc |-> "exp_start", err |-> NoErr, conf |-> NoFrame, loc |-> NoLocals,
     cmd |-> cmd]

InitConc ==
    /\ pc = "exp_start"
    /\ \E a, b \in ConcAsegs :
          inp = WithOther(ConcCmd(2, a, "cf"), Waiting(ConcCmd(3, b, "cf2")))
    /\ out = NoFrame
    /\ err = NoErr
    /\ MainIdle

\* the runs followed: every external step succeeds and returns one value
\* for each frame, and CompCor returns one component under nipype's name
ConcQuiet ==
    /\ pc # "exp_failed"
    /\ loc.hashseed = 0
    /\ Exists(fs, FDFile(ExpWorkdir)) =>
          Len(ReadFile(fs, FDFile(ExpWorkdir))) = loc.T
    /\ pc \in {"exp_acompcor", "exp_cosine", "exp_order", "exp_done"} =>
          /\ Exists(fs, DvarsNstdFile(ExpWorkdir))
          /\ Len(ReadFile(fs, DvarsNstdFile(ExpWorkdir))) = loc.T
    /\ Exists(fs, ComponentsFile(ExpWorkdir)) =>
          /\ ReadFile(fs, ComponentsFile(ExpWorkdir)).index = loc.T
          /\ ReadFile(fs, ComponentsFile(ExpWorkdir)).columns =
                <<"a_comp_cor00">>

\* the operating system schedules the other run
ConcSwitch ==
    /\ inp' = WithOther(inp.other.cmd,
                        [pc |-> pc, err |-> err, conf |-> conf, loc |-> loc,
                         cmd |-> RunCmd(inp)])
    /\ pc' = inp.other.pc
    /\ err' = inp.other.err
    /\ conf' = inp.other.conf
    /\ loc' = inp.other.loc
    /\ UNCHANGED <<out, fs>>

ConcStage == NextExp /\ ConcQuiet'

NextConc == ConcStage \/ ConcSwitch

SpecConc == InitConc /\ [][NextConc]_vars

\* what the scheduled run wrote to a mask path
OwnMask(path) ==
    ReadFile(aseg_to_masks(<<>>, inp.aseg, Join(inp.outdir, "masks"),
                           inp.gm_dilate_iter, loc.hashseed).files, path)

\* the mask files the stage the scheduled run is about to execute reads
MasksRead ==
    CASE pc = "exp_signals" -> {loc.brain_mask, loc.wm_mask, loc.csf_mask}
      [] pc = "exp_dvars" -> {loc.brain_mask}
      [] pc = "exp_acompcor" -> {loc.wmcsf_mask}
      [] OTHER -> {}

\* C26: two runs that execute at the same time with the same --outdir and
\* different --outfile values do not interfere: every mask file a run
\* reads for mean-signal extraction, DVARS or CompCor holds exactly the
\* content that same run wrote.
C26_NoInterference ==
    \A p \in MasksRead : ReadFile(fs, p) = OwnMask(p)

(***************************************************************************)
(* Specification SpecExpand: add_fmriprep_expansions is called on a table. *)
(* conf is the caller's table object, inp the arguments of the call (the   *)
(* table as it is when the call is made, and base_cols), out the table     *)
(* returned.                                                               *)
(***************************************************************************)
\* sequences without repetition over the names of S, of 1..n names
Picks(S, n) ==
    {q \in UNION {[1..k -> S] : k \in 1..n} :
        \A i, j \in 1..Len(q) : q[i] = q[j] => i = j}

\* tables of 1..n rows and one or two of the mean-signal columns, in any
\* order
ExpandTables(n) ==
    UNION {{Frame(r, h, d) : d \in [1..Len(h) -> [1..r -> MotionVals]]} :
             r \in 1..n, h \in Picks(NameSet(GsBase), 2)}

\* the calls on a table of tables: base_cols holds columns of the table,
\* in any order
ExpandInputs(tables) ==
    UNION {{[df |-> df, base_cols |-> b] :
              b \in Picks(NameSet(df.columns), Len(df.columns))} :
             df \in tables}

InitExpand ==
    /\ pc = "expand_ready"
    /\ inp \in ExpandInputs(ExpandTables(MaxRows))
    /\ conf = inp.df
    /\ out = NoFrame
    /\ err = NoErr
    /\ fs = <<>>
    /\ loc = NoLocals

\* the expansions are added to the caller's table itself
CallExpansions_inPlace ==
    /\ pc = "expand_ready"
    /\ out' = add_fmriprep_expansions(conf, inp.base_cols)
    /\ conf' = out'
    /\ pc' = "expand_done"
    /\ UNCHANGED <<inp, err, fs, loc>>

\* lines 81-88: the function works on out = df.copy() and returns the
\* concatenation, a new table
CallExpansions ==
    /\ pc = "expand_ready"
    /\ out' = add_fmriprep_expansions(conf, inp.base_cols)
    /\ pc' = "expand_done"
    /\ UNCHANGED <<inp, err, conf, fs, loc>>

NextExpand == CallExpansions

SpecExpand == InitExpand /\ [][NextExpand]_vars

\* C27: add_fmriprep_expansions leaves the table passed to it unchanged
\* (same columns, same values) and returns a new table whose leading
\* columns are all the input columns in their input order with their input
\* values, followed by the derivative columns, then the squared columns,
\* then the derivative-squared columns, each group in the order of
\* base_cols.
C27_InputUnchanged ==
    pc = "expand_done" =>
        LET n == Len(inp.df.columns)
            b == Len(inp.base_cols)
        IN  /\ conf = inp.df
            /\ out.index = inp.df.index
            /\ Len(out.columns) = n + 3 * b
            /\ Len(out.data) = n + 3 * b
            /\ \A i \in 1..n : /\ out.columns[i] = inp.df.columns[i]
                                /\ out.data[i] = inp.df.data[i]
            /\ \A j \in 1..b :
                  /\ out.columns[n + j] = inp.base_cols[j] \o "_derivative1"
                  /\ out.columns[n + b + j] = inp.base_cols[j] \o "_power2"
                  /\ out.columns[n + 2 * b + j] =
                        inp.base_cols[j] \o "_derivative1_power2"

\* a table with the columns global_signal, csf was expanded with
\* base_cols = csf, global_signal: six columns follow the two, csf first
C27_Witness ==
    /\ pc = "expand_done"
    /\ inp.df.columns = <<"global_signal", "csf">>
    /\ inp.base_cols = <<"csf", "global_signal">>
    /\ inp.df.index = 2
    /\ Len(out.columns) = 8
    /\ out.columns[3] = "csf_derivative1"
    /\ out.columns[8] = "global_signal_derivative1_power2"
    /\ conf.columns = <<"global_signal", "csf">>

(***************************************************************************)
(* Specification SpecRuns: the experimental main is run, and after a run   *)
(* that wrote its table it is run once more on the same command line, in   *)
(* a new interpreter process.  out keeps what the first run left.          *)
(***************************************************************************)
\* command lines run twice: two frames and as many motion rows, a scan long
\* enough for a drift column, white matter in the first voxel
RunInputs ==
    {i \in MainInputs : /\ i.bold.ndim = 4
                        /\ Len(i.bold.frames) = 2
                        /\ Len(i.mcpar) = Len(i.bold.frames)
                        /\ i.tr = 32
                        /\ i.aseg[1] \in WM_LABELS}

InitRuns ==
    /\ pc = "exp_start"
    /\ inp \in RunInputs
    /\ out = NoFrame
    /\ err = NoErr
    /\ MainIdle

\* the same command line is started again; the files of the first run stay
ExpRunAgain ==
    /\ pc = "exp_done"
    /\ out = NoFrame
    /\ out' = [table |-> conf, hashseed |-> loc.hashseed, nfiles |-> Len(fs)]
    /\ conf' = NoFrame
    /\ loc' = NoLocals
    /\ pc' = "exp_start"
    /\ UNCHANGED <<inp, err, fs>>

NextRuns == NextExp \/ ExpRunAgain

SpecRuns == InitRuns /\ [][NextRuns]_vars

\* C12: two runs of the assembler on identical inputs produce the identical
\* sequence of column names, whatever the iteration order of the unordered
\* collections (the tissue label sets) in each run: the second run ends as
\* the first did, with the same columns and the same file header.
C12_SameColumns ==
    (SecondRun /\ ExpEnded) =>
        /\ pc = "exp_done"
        /\ conf.columns = out.table.columns
        /\ ReadFile(SecondFiles, ExpTable).header =
               ReadFile(FirstFiles, ExpTable).header

\* two finished runs that iterated the label sets in different orders, over
\* a segmentation holding white matter
C12_Witness ==
    /\ SecondRun
    /\ pc = "exp_done"
    /\ loc.hashseed # out.hashseed
    /\ \E v \in Voxels : inp.aseg[v] \in WM_LABELS
    /\ Len(conf.columns) > 39

(***************************************************************************)
(* main, preproc variant. The stages after the component stage (lines     *)
(* 266-273: mean signals and the write of the table) are never reached:    *)
(* run_compcor gives the components file, whose first line is nipype's     *)
(* header, to np.loadtxt, and main indexes the table it returns with       *)
(* [:, i]; each raises.                                                    *)
(***************************************************************************)
InitPre ==
    /\ pc = "pre_start"
    /\ inp \in MainInputs
    /\ out = NoFrame
    /\ err = NoErr
    /\ MainIdle

PreFail(e) ==
    /\ pc' = "pre_failed"
    /\ err' = e

\* lines 201-219
PreLoadAndCheck ==
    /\ pc = "pre_start"
    /\ UNCHANGED <<inp, out, fs>>
    /\ IF inp.bold.ndim # 4
       THEN /\ PreFail(Error("IndexError", "tuple index out of range", "",
                             <<>>))
            /\ UNCHANGED <<conf, loc>>
       ELSE LET T == Len(inp.bold.frames)
                r == motion_df_from_mcflirt_pre(inp.mcpar)
            IN  /\ loc' = [loc EXCEPT !.T = T]
                /\ IF Raised(r) THEN PreFail(r.err) /\ UNCHANGED conf
                   ELSE /\ conf' = r.val
                        /\ IF r.val.index # T
                           THEN PreFail(Error("ValueError",
                                    "Motion rows != BOLD timepoints", "",
                                    <<r.val.index, T>>))
                           ELSE pc' = "pre_masks" /\ UNCHANGED err

\* lines 221-224
PreMasks ==
    /\ pc = "pre_masks"
    /\ \E seed \in HashSeeds :
         LET r == aseg_to_masks(fs, inp.aseg, Join(inp.outdir, "masks"),
                                inp.gm_dilate_iter, seed)
         IN  /\ fs' = r.files
             /\ loc' = [loc EXCEPT !.brain_mask = r.brain_p,
                                   !.wm_mask = r.wm_p,
                                   !.csf_mask = r.csf_p,
                                   !.wmcsf_mask = r.wmcsf_p,
                                   !.hashseed = seed]
    /\ pc' = "pre_fd"
    /\ UNCHANGED <<inp, out, err, conf>>

\* workdir = os.path.join(outdir, "nipype_work")
PreWorkdir == Join(inp.outdir, "nipype_work")

\* a result one value short is padded with the missing-value marker
PreFDVals_padMissing(fd_vals, T) ==
    IF T # Len(fd_vals)
    THEN IF Len(fd_vals) = T - 1
         THEN Ok(<<NaN>> \o fd_vals)
         ELSE Raise(Error("ValueError", "FD length != BOLD timepoints", "",
                          <<Len(fd_vals), T>>))
    ELSE Ok(fd_vals)

\* lines 228-234: the framewise displacement made T values long
PreFDVals(fd_vals, T) ==
    IF T # Len(fd_vals)
    THEN IF Len(fd_vals) = T - 1
         THEN Ok(<<Num(0)>> \o fd_vals)
         ELSE Raise(Error("ValueError", "FD length != BOLD timepoints", "",
                          <<Len(fd_vals), T>>))
    ELSE Ok(fd_vals)

\* lines 226-235
PreFD ==
    /\ pc = "pre_fd"
    /\ \E fd_vals \in FDOutcomes(loc.T) :
         IF Raised(fd_vals)
         THEN PreFail(fd_vals.err) /\ UNCHANGED <<conf, fs>>
         ELSE LET v == PreFDVals(fd_vals.val, loc.T)
                  r == IF Raised(v) THEN [err |-> v.err, val |-> conf]
                       ELSE SetCol(conf, "framewise_displacement", v.val)
              IN  /\ fs' = WriteFile(fs, FDFile(PreWorkdir), fd_vals.val)
                  /\ IF Raised(r) THEN PreFail(r.err) /\ UNCHANGED conf
                     ELSE /\ conf' = r.val
                          /\ pc' = "pre_dvars"
                          /\ UNCHANGED err
    /\ UNCHANGED <<inp, out, loc>>

\* lines 239-242: both series get two leading 0.0 when dvars_nstd has T-2
\* values
PreDvarsPad(dv, T) ==
    IF ~dv.nstd.none /\ Len(dv.nstd.v) = T - 2
    THEN [nstd |-> Some(<<Num(0), Num(0)>> \o dv.nstd.v),
          std |-> Some(<<Num(0), Num(0)>> \o dv.std.v)]
    ELSE dv

\* conf[name] = x, where x is an array or None (a column of missing values)
SetOptional(r, name, x) ==
    IF Raised(r) THEN r
    ELSE LET s == SetCol(r.val, name,
                         IF x.none THEN Full(r.val.index, NaN) ELSE x.v)
         IN  IF Raised(s) THEN [err |-> s.err, val |-> r.val] ELSE s

\* lines 237-248
PreDVARS ==
    /\ pc = "pre_dvars"
    /\ \E dv \in DVARSOutcomes(loc.T) :
         LET padded == PreDvarsPad(dv, loc.T)
             r1 == SetOptional(Ok(conf), "dvars", padded.nstd)
             r2 == SetOptional(r1, "dvars_standardized", padded.std)
         IN  /\ fs' = WriteDvars(fs, PreWorkdir, dv)
             /\ conf' = r2.val
             /\ IF Raised(r2) THEN PreFail(r2.err)
                ELSE pc' = "pre_compcor" /\ UNCHANGED err
    /\ UNCHANGED <<inp, out, loc>>

\* how the component stage ends: no components file; np.loadtxt on its
\* header line; or, for a file without header, acomp_wm[:, i] on a table
PreCompCorErrors ==
    {Error("RuntimeError", "Could not locate CompCor components_file in",
           "", <<>>),
     Error("ValueError", "could not convert string to float", "", <<>>),
     Error("InvalidIndexError", "(slice(None, None, None), 0)", "", <<>>)}

\* lines 250-264
PreCompCor ==
    /\ pc = "pre_compcor"
    /\ \E e \in PreCompCorErrors : PreFail(e)
    /\ UNCHANGED <<inp, out, conf, fs, loc>>

NextPre ==
    \/ PreLoadAndCheck
    \/ PreMasks
    \/ PreFD
    \/ PreDVARS
    \/ PreCompCor

SpecPre == InitPre /\ [][NextPre]_vars

PreDvarsRead ==
    /\ pc \in {"pre_compcor", "pre_failed"}
    /\ HasCol(conf, "dvars")
    /\ HasCol(conf, "dvars_standardized")

\* C5: in the preproc pipeline, when the DVARS step yields T-2 values, the
\* two leading rows of the dvars and dvars_standardized columns of the
\* assembled table hold the missing-value marker, not zero.
C5_DvarsPadMissing ==
    (/\ PreDvarsRead
     /\ Exists(fs, DvarsNstdFile(PreWorkdir))
     /\ Len(ReadFile(fs, DvarsNstdFile(PreWorkdir))) = loc.T - 2) =>
        \A t \in 1..2 :
            /\ Col(conf, "dvars")[t] = NaN
            /\ Col(conf, "dvars_standardized")[t] = NaN

\* the framewise-displacement step of the preproc run has left its file
PreFDRead == Exists(fs, FDFile(PreWorkdir))

\* C30: in the preproc pipeline a framewise-displacement result of length
\* T is stored unchanged, a result of length T-1 is stored with the value
\* 0.0 prepended as frame 0, and a result of any other length makes main
\* fail with an error stating the length of the result and T, before the
\* framewise_displacement column is added to the table.
C30_PreFDLength ==
    PreFDRead =>
        LET fd_vals == ReadFile(fs, FDFile(PreWorkdir))
            T == Len(inp.bold.frames)
        IN  /\ Len(fd_vals) = T =>
                  /\ HasCol(conf, "framewise_displacement")
                  /\ Col(conf, "framewise_displacement") = fd_vals
            /\ Len(fd_vals) = T - 1 =>
                  /\ HasCol(conf, "framewise_displacement")
                  /\ Col(conf, "framewise_displacement") =
                        <<Num(0)>> \o fd_vals
            /\ Len(fd_vals) \notin {T, T - 1} =>
                  /\ pc = "pre_failed"
                  /\ err.type = "ValueError"
                  /\ err.text = "FD length != BOLD timepoints"
                  /\ err.nums = <<Len(fd_vals), T>>
                  /\ ~HasCol(conf, "framewise_displacement")
                  /\ Len(conf.columns) = 24

\* over three frames the step returned two values, stored after a leading 0
C30_Witness ==
    /\ pc = "pre_dvars"
    /\ Len(inp.bold.frames) = 3
    /\ ReadFile(fs, FDFile(PreWorkdir)) = <<Num(1), Num(2)>>
    /\ Col(conf, "framewise_displacement") = <<Num(0), Num(1), Num(2)>>

=============================================================================
